---- MODULE Spec2Model ----
(***************************************************************************)
(* Model of the import task of the manager package (ImportTask.Start and   *)
(* the Import* steps it runs), with the studio parent/child resolution of  *)
(* ImportStudios / ImportStudio in full.                                   *)
(*                                                                         *)
(* Entities are identified by small integers: a manifest of n entries is   *)
(* the sequence <<1, ..., n>> (checksums are distinct, so every manifest   *)
(* is such a sequence up to renaming); for studios, the order of parents   *)
(* and children in the manifest is carried by the parent names instead.    *)
(***************************************************************************)
EXTENDS Integers, Sequences, FiniteSets, TLC

\* Number of entries of each manifest list in a whole run.
ManifestLen == 2
\* Number of studio names; a manifest of ImportStudios lists 1..n of them.
NumStudios == 4
\* Largest number of markers a scene record carries.
MaxMarkers == 2
\* Number of images, performers and tags in the tables a query reads.
NumImages == 2
NumPerformers == 2
NumTags == 2
\* Largest number of ids in the operand list of a criterion.
MaxOperands == 2
\* Largest number of nodes of an image filter tree.
MaxFilterNodes == 4
\* Number of galleries.
NumGalleries == 1
\* Number of concurrent callers of the store, each in a transaction of its
\* own, and the largest number of counter calls they make together.
NumCallers == 2
MaxCalls == 3

VARIABLES
    pc,                   \* position of Start: "start", a step of StartSteps, "studios_leftover", "done"
    idx,                  \* 1-based index of the next manifest entry of the running loop
    DuplicateBehaviour,   \* t.DuplicateBehaviour
    MissingRefBehaviour,  \* t.MissingRefBehaviour
    Reset,                \* t.Reset
    startFault,           \* what goes wrong in Start: "none", "unzip", "mappings", "reset"
    mappings,             \* t.mappings: manifest type -> sequence of checksums
    studioJSON,           \* studio name -> name of its parent studio (NoParent if none)
    scraped,              \* t.scraped: sequence of scraped items
    faults,               \* the i/o failures of this run: [type, name, kind]
    store,                \* simple type -> name -> "none" | "old" | "new"
    studioRows,           \* studio name -> Absent | NoParent | parent name
    scrapedRows,          \* scraped item -> Absent | NoParent | studio id
    pendingParent,        \* ImportStudios' map: parent name -> sequence of deferred studios
    rangeTodo,            \* leftover phase: keys of pendingParent the range loop has not visited
    rangeCur,             \* leftover phase: studios left in the list of the key being visited
    errlog,               \* what the logger was given for failures
    attempted,            \* <<type, name>> of every manifest entry whose loop iteration ran
    lastTxn,              \* the last transaction WithTxn ran: [type, name, written, committed]
    sceneJSON,            \* scene name -> its record: [tags: names of its tags, markers: how many]
    sceneTags,            \* scene name -> the tags its row is linked to (scenes_tags)
    markerRows,           \* scene name -> the markers stored for it (scene_markers)
    rowCount,             \* simple type -> name -> number of rows stored with that checksum
    imageDB,              \* the tables of the store: images, its join tables, performers_tags
    imageFilter,          \* the imageFilter argument of Query / QueryCount (<<>> is nil)
    findFilter,           \* the findFilter argument of Query / QueryCount (<<>> is nil)
    qfault,               \* the statement the store fails: [kind: "none", "ids", "count", "fetch"; id]
    queryRet,             \* what Query returned: <<>> before the call, else <<[images, count, err]>>
    countRet,             \* what QueryCount returned: <<>> before the call, else <<[count, err]>>
    executed,             \* the statements the calls ran against the store
    txns,                 \* caller -> its transaction: the call it runs, its position in it,
                          \* its uncommitted copy of the tables, what the call returned
    download              \* the progressReader of a download, the bytes its Reader returned,
                          \* the messages it logged and the error that ended the copy

\* The state of the scene tables and of the scene records read.
sceneVars == <<sceneJSON, sceneTags, markerRows>>

\* The state of the image query builder and of its callers, and the download.
queryVars == <<imageDB, imageFilter, findFilter, qfault, queryRet, countRet, executed, txns,
               download>>

\* The state of the import task.
importVars == <<pc, idx, DuplicateBehaviour, MissingRefBehaviour, Reset, startFault, mappings,
                studioJSON, scraped, faults, store, studioRows, scrapedRows, pendingParent,
                rangeTodo, rangeCur, errlog, attempted, lastTxn, sceneVars, rowCount>>

vars == <<importVars, queryVars>>

SimpleTypes == {"tags", "performers", "movies", "galleries", "scenes", "images"}
ManifestTypes == SimpleTypes \cup {"studios"}
\* The types whose loop is a read and one performImport.
PlainTypes == SimpleTypes \ {"scenes"}

\* Start with ImportMovies called before ImportStudios.
StartStepsMoviesFirst == <<"tags", "performers", "movies", "studios", "galleries", "scraped", "scenes", "images">>

\* The steps of Start, in the order it calls them.
StartSteps == <<"tags", "performers", "studios", "movies", "galleries", "scraped", "scenes", "images">>

DuplicateEnum == {"IGNORE", "OVERWRITE", "FAIL"}
MissingRefEnum == {"IGNORE", "FAIL", "CREATE"}

NoParent == 0
Absent == -1
ErrParentStudioNotExist == "ErrParentStudioNotExist"

StudioNames == 1..NumStudios
EntryNames == 1..ManifestLen
EmptyMap == [k \in {} |-> <<>>]
NoTxn == [type |-> "none", name |-> 0, written |-> {}, committed |-> FALSE]

Range(s) == {s[i] : i \in DOMAIN s}
Ident(n) == [i \in 1..n |-> i]
Fails(t, name, kind) == [type |-> t, name |-> name, kind |-> kind] \in faults

\* The step Start runs after step p.
NextStep(p) ==
    LET i == CHOOSE j \in DOMAIN StartSteps : StartSteps[j] = p
    IN  IF i = Len(StartSteps) THEN "done" ELSE StartSteps[i + 1]

\* Start: an invalid policy is replaced by Fail.
\* A Start that sets the duplicate policy to Fail whatever the caller gave.
DefaultDuplicateAlways(d) == "FAIL"

DefaultDuplicate(d) == IF d \in DuplicateEnum THEN d ELSE "FAIL"
DefaultMissingRef(m) == IF m \in MissingRefEnum THEN m ELSE "FAIL"

\* A log entry of a failed instance.
LogEntry(level, t, name, err) == [level |-> level, type |-> t, name |-> name, err |-> err]

\* The level at which a loop logs a record it cannot read.
ReadFailLevel(t) == IF t \in {"scenes", "images"} THEN "info" ELSE "error"

\* A loop that gives up at a failed entry: `break` (or `return`) for `continue`.
AfterFailureBreak(t, i) == Len(mappings[t]) + 1

\* Where a loop goes after a failed entry: `continue`.
AfterFailure(t, i) == i + 1

\* performImport called with Overwrite whatever the task's policy is.
DuplicatePolicyOverwrite == "OVERWRITE"

\* The policy the loops hand to performImport: t.DuplicateBehaviour.
DuplicatePolicy == DuplicateBehaviour

(***************************************************************************)
(* performImport for an importer without references: the duplicate policy  *)
(* applied to the row with the record's checksum. `created` is the rows    *)
(* inserted (Create), as opposed to the rows updated in place (Update).    *)
(***************************************************************************)
PerformImport(rows, name) ==
    IF rows[name] # "none"
    THEN CASE DuplicatePolicy = "FAIL" ->
                [err |-> "duplicate", rows |-> rows, written |-> {}, created |-> {}]
           [] DuplicatePolicy = "IGNORE" ->
                [err |-> "nil", rows |-> rows, written |-> {}, created |-> {}]
           [] OTHER ->
                [err |-> "nil", rows |-> [rows EXCEPT ![name] = "new"], written |-> {name},
                 created |-> {}]
    ELSE [err |-> "nil", rows |-> [rows EXCEPT ![name] = "new"], written |-> {name},
          created |-> {name}]

\* The number of rows per checksum after the rows `created` are inserted.
Inserted(counts, created) ==
    [n \in DOMAIN counts |-> IF n \in created THEN counts[n] + 1 ELSE counts[n]]

(***************************************************************************)
(* WithTxn: what the transaction leaves of fn's result r (a record with    *)
(* err and the rows fn wrote) over the rows `before`: fn's error rolls      *)
(* back; a nil error commits, and a failing commit is returned as error.   *)
(***************************************************************************)
TxnErr(r, commitFails) ==
    IF r.err # "nil" THEN r.err ELSE IF commitFails THEN "commit" ELSE "nil"

TxnRows(before, after, err) == IF err = "nil" THEN after ELSE before

(***************************************************************************)
(* studio.Importer under performImport: the parent is resolved by name     *)
(* under the missing-reference policy mrb, then the duplicate policy is    *)
(* applied to the studio's own name.                                       *)
(***************************************************************************)
PopulateParentStudio(st, parent, mrb) ==
    IF parent = NoParent
    THEN [err |-> "nil", st |-> st, parentID |-> NoParent]
    ELSE IF st[parent] # Absent
    THEN [err |-> "nil", st |-> st, parentID |-> parent]
    ELSE CASE mrb = "FAIL" ->
                [err |-> ErrParentStudioNotExist, st |-> st, parentID |-> NoParent]
           [] mrb = "IGNORE" ->
                [err |-> "nil", st |-> st, parentID |-> NoParent]
           [] OTHER ->
                [err |-> "nil", st |-> [st EXCEPT ![parent] = NoParent], parentID |-> parent]

PerformImportStudio(st, name, mrb) ==
    LET p == PopulateParentStudio(st, studioJSON[name], mrb)
        \* the placeholder created for a missing parent, if any
        placeholder == {n \in StudioNames : st[n] = Absent /\ p.st[n] # Absent}
    IN  IF p.err # "nil"
        THEN [err |-> p.err, st |-> st, written |-> {}]
        ELSE IF p.st[name] # Absent
        THEN CASE DuplicatePolicy = "FAIL" ->
                    [err |-> "duplicate", st |-> p.st, written |-> placeholder]
               [] DuplicatePolicy = "IGNORE" ->
                    [err |-> "nil", st |-> p.st, written |-> placeholder]
               [] OTHER ->
                    [err |-> "nil", st |-> [p.st EXCEPT ![name] = p.parentID],
                     written |-> placeholder \cup {name}]
        ELSE [err |-> "nil", st |-> [p.st EXCEPT ![name] = p.parentID],
              written |-> placeholder \cup {name}]

\* ImportStudio without the first-phase override of the caller's policy.
ImporterMissingRefCallers(pendingNil) == MissingRefBehaviour

\* ImportStudio, first phase: the parent must exist whatever the caller's policy.
ImporterMissingRef(pendingNil) == IF ~pendingNil THEN "FAIL" ELSE MissingRefBehaviour

\* A read that finds no studio pending, as a nil map gives.
PendingOfNil(pendingNil, pend, name) == <<>>

\* The studios of every list of the map, instead of the list under this name.
PendingOfAnyKey(pendingNil, pend, name) ==
    IF pendingNil \/ DOMAIN pend = {} THEN <<>>
    ELSE LET k == CHOOSE x \in DOMAIN pend : \A y \in DOMAIN pend : x <= y IN pend[k]

\* s := pendingParent[studioJSON.Name]; a nil map reads as empty.
PendingOf(pendingNil, pend, name) ==
    IF ~pendingNil /\ name \in DOMAIN pend THEN pend[name] ELSE <<>>

\* delete(pendingParent, name)
MapDelete(pend, name) == [k \in DOMAIN pend \ {name} |-> pend[k]]

\* An ImportStudio that deletes the entry of the studio before it returns the
\* error of a child.
AfterChildErrorDeleted(pend, name) == MapDelete(pend, name)

\* The map when a child fails: ImportStudio returns the error before it
\* reaches the delete.
AfterChildError(pend, name) == pend

(***************************************************************************)
(* ImportStudio(studioJSON, pendingParent, readerWriter): the result is    *)
(* the error returned, the rows of the transaction, the map, and the       *)
(* manifest studios written. pendingNil says pendingParent is nil.         *)
(***************************************************************************)
RECURSIVE ImportStudio(_, _, _, _)
RECURSIVE ImportChildren(_, _, _)

ImportStudio(name, pendingNil, pend, st) ==
    LET r == PerformImportStudio(st, name, ImporterMissingRef(pendingNil))
    IN  IF r.err # "nil"
        THEN [err |-> r.err, st |-> r.st, pend |-> pend, written |-> r.written]
        ELSE LET c == ImportChildren(PendingOf(pendingNil, pend, name), r.st, r.written)
             IN  IF c.err # "nil"
                 THEN [err |-> "child", st |-> c.st, pend |-> AfterChildError(pend, name),
                       written |-> c.written]
                 ELSE [err |-> "nil", st |-> c.st, pend |-> MapDelete(pend, name),
                       written |-> c.written]

\* The loop over the studios pending this studio's creation: each is imported
\* with a nil map, and the loop stops at the first error.
ImportChildren(s, st, written) ==
    IF s = <<>>
    THEN [err |-> "nil", st |-> st, written |-> written]
    ELSE LET r == ImportStudio(Head(s), TRUE, EmptyMap, st)
         IN  IF r.err # "nil"
             THEN [err |-> r.err, st |-> r.st, written |-> written \cup r.written]
             ELSE ImportChildren(Tail(s), r.st, written \cup r.written)

(***************************************************************************)
(* scene.Importer and scene.MarkerImporter under performImport. The tables *)
(* a scene's transaction works on are one record db: the tag rows, the     *)
(* scene rows, the scene-tag links, the markers and the row counts.        *)
(***************************************************************************)
\* A scene importer that leaves out the tags it cannot find, whatever the policy.
SceneMissingRefIgnore == "IGNORE"

\* A scene importer that refuses a tag it cannot find, whatever the policy.
SceneMissingRefFail == "FAIL"

\* MissingRefBehaviour of the scene importer: t.MissingRefBehaviour.
SceneMissingRef == MissingRefBehaviour

\* MissingRefBehaviour of the marker importer: t.MissingRefBehaviour.
MarkerMissingRef == MissingRefBehaviour

\* The tags `names` looked up by name under the missing-reference policy mrb.
ResolveTags(tagRows, names, mrb) ==
    LET missing == {t \in names : tagRows[t] = "none"}
    IN  IF missing = {}
        THEN [err |-> "nil", tagRows |-> tagRows, ids |-> names, created |-> {}]
        ELSE CASE mrb = "FAIL" ->
                    [err |-> "missing reference", tagRows |-> tagRows, ids |-> {},
                     created |-> {}]
               [] mrb = "IGNORE" ->
                    [err |-> "nil", tagRows |-> tagRows, ids |-> names \ missing,
                     created |-> {}]
               [] OTHER ->
                    [err |-> "nil",
                     tagRows |-> [t \in DOMAIN tagRows |->
                                    IF t \in missing THEN "new" ELSE tagRows[t]],
                     ids |-> names, created |-> missing]

\* performImport(sceneImporter, t.DuplicateBehaviour)
PerformImportScene(db, name) ==
    LET p == ResolveTags(db.tags, sceneJSON[name].tags, SceneMissingRef)
        r == PerformImport(db.scenes, name)
        placeholders == {<<"tags", t>> : t \in p.created}
        withTags == [db EXCEPT !.tags = p.tagRows,
                               !.counts["tags"] = Inserted(@, p.created)]
    IN  IF p.err # "nil"
        THEN [err |-> p.err, db |-> db, written |-> {}]
        ELSE IF r.err # "nil"
        THEN [err |-> r.err, db |-> withTags, written |-> placeholders]
        ELSE [err |-> "nil",
              db |-> [withTags EXCEPT
                        !.scenes = r.rows,
                        !.counts["scenes"] = Inserted(@, r.created),
                        !.links[name] = IF name \in r.written THEN p.ids ELSE @],
              written |-> placeholders \cup {<<"scenes", n>> : n \in r.written}]

\* performImport(markerImporter, t.DuplicateBehaviour) for the j-th marker of the scene
PerformImportMarker(db, name, j) ==
    LET p == ResolveTags(db.tags, {sceneJSON[name].markers[j]}, MarkerMissingRef)
        withTags == [db EXCEPT !.tags = p.tagRows,
                               !.counts["tags"] = Inserted(@, p.created)]
    IN  IF p.err # "nil"
        THEN [err |-> "marker", db |-> db, written |-> {}]
        ELSE IF j \in db.markers[name] /\ DuplicatePolicy = "FAIL"
        THEN [err |-> "marker", db |-> withTags, written |-> {}]
        ELSE [err |-> "nil",
              db |-> [withTags EXCEPT !.markers[name] = @ \cup {j}],
              written |-> {<<"tags", t>> : t \in p.created}]

\* A marker loop that goes on to the next marker when one fails.
MarkerLoopGoesOn(err) == FALSE

\* The marker loop returns the first error of a marker.
MarkerLoopStops(err) == err # "nil"

\* for _, m := range sceneJSON.Markers, from the j-th marker on
RECURSIVE ImportMarkers(_, _, _, _, _)
ImportMarkers(db, name, j, written, tried) ==
    IF j > Len(sceneJSON[name].markers)
    THEN [err |-> "nil", db |-> db, written |-> written, tried |-> tried]
    ELSE LET r == PerformImportMarker(db, name, j)
         IN  IF MarkerLoopStops(r.err)
             THEN [err |-> r.err, db |-> r.db, written |-> written \cup r.written,
                   tried |-> tried \cup {j}]
             ELSE ImportMarkers(r.db, name, j + 1, written \cup r.written, tried \cup {j})

\* The function ImportScenes runs in the transaction of one scene.
ImportSceneTxn(db, name) ==
    LET r == PerformImportScene(db, name)
    IN  IF r.err # "nil"
        THEN [err |-> r.err, db |-> r.db, written |-> r.written, tried |-> {}]
        ELSE ImportMarkers(r.db, name, 1, r.written, {})

(***************************************************************************)
(* The image query builder. A pointer is a sequence of length at most one: *)
(* <<>> is nil and <<v>> points to v. An image filter is a record of the   *)
(* fields of models.ImageFilterType the model carries: the sub-filters     *)
(* And, Or, Not and the criteria IsMissing, TagCount, Performers,          *)
(* PerformerCount and PerformerTags.                                       *)
(***************************************************************************)
ImageIDs == 1..NumImages
PerformerIDs == 1..NumPerformers
TagIDs == 1..NumTags
Paths == {"a", "b"}
NULL == 0

\* The texts a text column holds, and TRIM(text): the text without the blanks
\* around it. A column of text is <<>> (NULL) or <<text>>.
Texts == {"", " ", "a", " a "}
Trim(text) ==
    CASE text = " " -> ""
      [] text = " a " -> "a"
      [] OTHER -> text

\* &models.ImageFilterType{}
EmptyFilter ==
    [And |-> <<>>, Or |-> <<>>, Not |-> <<>>, IsMissing |-> <<>>, TagCount |-> <<>>,
     Performers |-> <<>>, PerformerCount |-> <<>>, PerformerTags |-> <<>>]

\* &models.FindFilterType{}
EmptyFindFilter == [Q |-> <<>>, Page |-> <<>>, PerPage |-> <<>>, Sort |-> <<>>, Direction |-> <<>>]

\* The tables: the columns path, title, studio_id and o_counter of images, the
\* join tables of images, and performers_tags.
EmptyDB ==
    [paths |-> [i \in ImageIDs |-> "a"],
     titles |-> [i \in ImageIDs |-> <<>>],
     studioID |-> [i \in ImageIDs |-> NULL],
     oCounter |-> [i \in ImageIDs |-> 0],
     present |-> [i \in ImageIDs |-> TRUE],
     galleriesImages |-> [i \in ImageIDs |-> {}],
     imagesTags |-> [i \in ImageIDs |-> {}],
     performersImages |-> [i \in ImageIDs |-> {}],
     performersTags |-> [q \in PerformerIDs |-> {}]]

\* The callers of the store and the transaction of a caller that calls nothing.
Callers == 1..NumCallers
NoCall == [op |-> "none", id |-> 0, ids |-> <<>>]
IdleTxn ==
    [call |-> NoCall, pc |-> "done", before |-> <<>>, work |-> <<>>, k |-> 0, calls |-> 0,
     ret |-> <<>>, err |-> "nil"]
NoCalls == [c \in Callers |-> IdleTxn]

\* No query is made: the query builder's state in a run of the import task.
\* &progressReader{Reader: resp.Body, total: 0}: no download runs.
NoDownload ==
    [total |-> 0, bytesRead |-> 0, lastProgress |-> 0, returned |-> 0, logged |-> <<>>,
     err |-> "nil"]

NoQuery ==
    /\ imageDB = EmptyDB
    /\ imageFilter = <<>>
    /\ findFilter = <<>>
    /\ qfault = [kind |-> "none", id |-> 0]
    /\ queryRet = <<>>
    /\ countRet = <<>>
    /\ executed = {}
    /\ txns = NoCalls
    /\ download = NoDownload

illegalFilterCombination(a, b) == "illegal filter combination"

\* A validation that looks at the node it is given and not at its sub-filters.
validateFilterShallow(f) ==
    IF f.And # <<>> /\ (f.Or # <<>> \/ f.Not # <<>>) THEN illegalFilterCombination("AND", "OR")
    ELSE IF f.Or # <<>> /\ f.Not # <<>> THEN illegalFilterCombination("OR", "NOT")
    ELSE "nil"

RECURSIVE validateFilter(_)
validateFilter(f) ==
    IF f.And # <<>>
    THEN IF f.Or # <<>> THEN illegalFilterCombination("AND", "OR")
         ELSE IF f.Not # <<>> THEN illegalFilterCombination("AND", "NOT")
         ELSE validateFilter(f.And[1])
    ELSE IF f.Or # <<>>
    THEN IF f.Not # <<>> THEN illegalFilterCombination("OR", "NOT")
         ELSE validateFilter(f.Or[1])
    ELSE IF f.Not # <<>>
    THEN validateFilter(f.Not[1])
    ELSE "nil"

(***************************************************************************)
(* filterBuilder: the clauses, arguments and joins a filter compiles to. A *)
(* clause is a term of SQL with n placeholders: in (column IN (?, ...)),   *)
(* not_exists_tag_in (the correlated sub-query of Excludes), like (the     *)
(* search over the columns), count_distinct_is (a HAVING clause), and the  *)
(* combinations and, or, not of terms.                                     *)
(***************************************************************************)
EmptyFilterBuilder ==
    [whereClauses |-> <<>>, havingClauses |-> <<>>, joins |-> <<>>,
     subFilter |-> <<>>, subFilterOp |-> ""]

\* f.addWhere(sql, args...) and f.addHaving(sql, args...)
FilterAddWhere(f, sql, args) ==
    [f EXCEPT !.whereClauses = Append(@, [sql |-> sql, args |-> args])]
FilterAddHaving(f, sql, args) ==
    [f EXCEPT !.havingClauses = Append(@, [sql |-> sql, args |-> args])]

\* A join is registered every time it is asked for.
FilterAddJoinAgain(f, table, as, onClause) ==
    [f EXCEPT !.joins = Append(@, [table |-> table, as |-> as, onClause |-> onClause])]

\* f.addJoin(table, as, onClause): a join is registered once per alias.
FilterAddJoin(f, table, as, onClause) ==
    IF \E i \in DOMAIN f.joins : f.joins[i].as = as
    THEN f
    ELSE [f EXCEPT !.joins = Append(@, [table |-> table, as |-> as, onClause |-> onClause])]

\* query.and(sub), query.or(sub), query.not(sub)
SetSubFilter(f, sub, op) == [f EXCEPT !.subFilter = <<sub>>, !.subFilterOp = op]

\* getInBinding(n): "(?, ..., ?)" with n placeholders
InTerm(col, n) == [op |-> "in", col |-> col, n |-> n]

\* qb.galleriesRepository(), qb.performersRepository(), qb.tagsRepository():
\* the join table of the relation, its image column and its foreign column.
galleriesRepository ==
    [tableName |-> "galleries_images", idColumn |-> "image_id", fkColumn |-> "gallery_id"]
performersRepository ==
    [tableName |-> "performers_images", idColumn |-> "image_id", fkColumn |-> "performer_id"]
tagsRepository ==
    [tableName |-> "images_tags", idColumn |-> "image_id", fkColumn |-> "tag_id"]

\* repository.join(f, as, parentIDCol): LEFT JOIN tableName AS as ON as.idColumn = parentIDCol
RepositoryJoin(r, f, as, parentIDCol) ==
    FilterAddJoin(f, r.tableName, as, <<as, r.idColumn, parentIDCol>>)

\* A clause that is true of no text but the empty one, blanks not trimmed.
IsBlankUntrimmed(text) == text = ""

\* TRIM(text) = ''
IsBlank(text) == Trim(text) = ""

imageIsMissingCriterionHandler(f, isMissing) ==
    IF isMissing # <<>> /\ isMissing[1] # ""
    THEN CASE isMissing[1] = "studio" ->
                FilterAddWhere(f, [op |-> "is_null", col |-> <<"images", "studio_id">>, n |-> 0], <<>>)
           [] isMissing[1] = "performers" ->
                FilterAddWhere(RepositoryJoin(performersRepository, f, "performers_join", "images.id"),
                               [op |-> "is_null", col |-> <<"performers_join", "image_id">>, n |-> 0],
                               <<>>)
           [] isMissing[1] = "galleries" ->
                FilterAddWhere(RepositoryJoin(galleriesRepository, f, "galleries_join", "images.id"),
                               [op |-> "is_null", col |-> <<"galleries_join", "image_id">>, n |-> 0],
                               <<>>)
           [] isMissing[1] = "tags" ->
                FilterAddWhere(RepositoryJoin(tagsRepository, f, "tags_join", "images.id"),
                               [op |-> "is_null", col |-> <<"tags_join", "image_id">>, n |-> 0], <<>>)
           [] OTHER ->
                FilterAddWhere(f, [op |-> "is_null_or_blank", col |-> isMissing[1], n |-> 0],
                               <<>>)
    ELSE f

\* getCriterionModifierBinding(modifier, value): the comparison of a numeric
\* criterion, with one placeholder.
ModifierBinding(modifier) ==
    CASE modifier = "NOT_EQUALS" -> "!="
      [] modifier = "GREATER_THAN" -> ">"
      [] modifier = "LESS_THAN" -> "<"
      [] OTHER -> "="

\* countCriterionHandlerBuilder{primaryTable, joinTable, primaryFK}.handler(criterion):
\* (SELECT COUNT(*) FROM joinTable s WHERE s.primaryFK = primaryTable.id) <binding> ?
countCriterionHandler(f, joinTable, criterion) ==
    IF criterion # <<>>
    THEN FilterAddWhere(f, [op |-> "count_cmp", table |-> joinTable,
                            cmp |-> ModifierBinding(criterion[1].Modifier), n |-> 1],
                        <<criterion[1].Value>>)
    ELSE f

\* The join table each count criterion of an image counts.
TagCountJoinTable == "images_tags"
PerformerCountJoinTableTags == "images_tags"
PerformerCountJoinTable == "performers_images"

imageTagCountCriterionHandler(f, tagCount) ==
    countCriterionHandler(f, TagCountJoinTable, tagCount)

imagePerformerCountCriterionHandler(f, performerCount) ==
    countCriterionHandler(f, PerformerCountJoinTable, performerCount)

\* A criterion is compiled whatever its operand list holds.
OperandsGivenAlways(criterion) == criterion # <<>>

\* criterion != nil && len(criterion.Value) > 0
OperandsGiven(criterion) == criterion # <<>> /\ Len(criterion[1].Value) > 0

\* joinedMultiCriterionHandlerBuilder{joinTable, joinAs, foreignFK}.handler(criterion),
\* for the join table of repository r.
joinedMultiCriterionHandler(f, r, joinAs, criterion) ==
    IF OperandsGiven(criterion)
    THEN LET c == criterion[1]
             joined == RepositoryJoin(r, f, joinAs, "images.id")
             in == InTerm(<<joinAs, r.fkColumn>>, Len(c.Value))
         IN  CASE c.Modifier = "INCLUDES" -> FilterAddWhere(joined, in, c.Value)
               [] c.Modifier = "INCLUDES_ALL" ->
                    FilterAddHaving(FilterAddWhere(joined, in, c.Value),
                                    [op |-> "count_distinct_is", col |-> <<joinAs, r.fkColumn>>,
                                     value |-> Len(c.Value), n |-> 0],
                                    <<>>)
               [] c.Modifier = "EXCLUDES" ->
                    FilterAddWhere(f, [op |-> "id_not_in_link", table |-> r.tableName,
                                       n |-> Len(c.Value)],
                                   c.Value)
               [] OTHER -> f
    ELSE f

imagePerformersCriterionHandler(f, performers) ==
    joinedMultiCriterionHandler(f, performersRepository, "performers_join", performers)

\* The N of "count(distinct performer_tags_join.tag_id) IS N": len(Value).
HavingCount(values) == Len(values)

\* The arguments of the HAVING clause of IncludesAll: the operands once more.
HavingArgsOperands(values) == values

\* f.addHaving(fmt.Sprintf("count(distinct ...) IS %d", len(Value))): no argument.
HavingArgs(values) == <<>>

\* Excludes as a condition on the joined row: performer_tags_join.tag_id NOT IN (...)
ExcludesClauseOnJoin(n) == [op |-> "not_in", col |-> <<"performer_tags_join", "tag_id">>, n |-> n]

\* Excludes as the correlated sub-query: not exists (select ... from performers_images
\* left join performers_tags ... where performers_images.image_id = images.id AND
\* performers_tags.tag_id in (...))
ExcludesClause(n) == [op |-> "not_exists_tag_in", n |-> n]

imagePerformerTagsCriterionHandler(f, performerTagsFilter) ==
    IF OperandsGiven(performerTagsFilter)
    THEN LET c == performerTagsFilter[1]
             f1 == RepositoryJoin(performersRepository, f, "performers_join", "images.id")
             f2 == FilterAddJoin(f1, "performers_tags", "performer_tags_join",
                                 <<"performer_tags_join", "performer_id",
                                   "performers_join.performer_id">>)
             in == InTerm(<<"performer_tags_join", "tag_id">>, Len(c.Value))
         IN  CASE c.Modifier = "INCLUDES" -> FilterAddWhere(f2, in, c.Value)
               [] c.Modifier = "INCLUDES_ALL" ->
                    FilterAddHaving(FilterAddWhere(f2, in, c.Value),
                                    [op |-> "count_distinct_is",
                                     col |-> <<"performer_tags_join", "tag_id">>,
                                     value |-> HavingCount(c.Value),
                                     n |-> 0],
                                    HavingArgs(c.Value))
               [] c.Modifier = "EXCLUDES" ->
                    FilterAddWhere(f2, ExcludesClause(Len(c.Value)), c.Value)
               [] OTHER -> f2
    ELSE f

RECURSIVE makeFilter(_)
makeFilter(imgFilter) ==
    LET q0 == EmptyFilterBuilder
        q1 == IF imgFilter.And # <<>> THEN SetSubFilter(q0, makeFilter(imgFilter.And[1]), "AND")
              ELSE q0
        q2 == IF imgFilter.Or # <<>> THEN SetSubFilter(q1, makeFilter(imgFilter.Or[1]), "OR")
              ELSE q1
        q3 == IF imgFilter.Not # <<>> THEN SetSubFilter(q2, makeFilter(imgFilter.Not[1]), "NOT")
              ELSE q2
        q4 == imageIsMissingCriterionHandler(q3, imgFilter.IsMissing)
        q5 == imageTagCountCriterionHandler(q4, imgFilter.TagCount)
        q6 == imagePerformersCriterionHandler(q5, imgFilter.Performers)
        q7 == imagePerformerCountCriterionHandler(q6, imgFilter.PerformerCount)
    IN  imagePerformerTagsCriterionHandler(q7, imgFilter.PerformerTags)

\* The concatenation of the sequences of a sequence.
RECURSIVE Flatten(_)
Flatten(ss) == IF ss = <<>> THEN <<>> ELSE Head(ss) \o Flatten(Tail(ss))

\* The clauses of a list joined by AND, with their arguments in order.
AndClauses(clauses) ==
    IF clauses = <<>>
    THEN [sql |-> <<>>, args |-> <<>>]
    ELSE [sql |-> <<[op |-> "and", terms |-> [i \in DOMAIN clauses |-> clauses[i].sql]]>>,
          args |-> Flatten([i \in DOMAIN clauses |-> clauses[i].args])]

\* The clause of a filter and of its sub-filter merged under the sub-filter's
\* operator: own AND (sub), own OR (sub), own AND NOT (sub).
MergeSub(own, sub, op) ==
    IF sub.sql = <<>>
    THEN own
    ELSE LET subTerm == IF op = "NOT" THEN [op |-> "not", terms |-> sub.sql] ELSE sub.sql[1]
             outer == IF op = "OR" THEN "or" ELSE "and"
         IN  [sql |-> IF own.sql = <<>> THEN <<subTerm>>
                      ELSE <<[op |-> outer, terms |-> <<own.sql[1], subTerm>>]>>,
              args |-> own.args \o sub.args]

RECURSIVE generateWhereClauses(_)
generateWhereClauses(f) ==
    LET own == AndClauses(f.whereClauses)
    IN  IF f.subFilter = <<>> THEN own
        ELSE MergeSub(own, generateWhereClauses(f.subFilter[1]), f.subFilterOp)

RECURSIVE generateHavingClauses(_)
generateHavingClauses(f) ==
    LET own == AndClauses(f.havingClauses)
    IN  IF f.subFilter = <<>> THEN own
        ELSE MergeSub(own, generateHavingClauses(f.subFilter[1]), f.subFilterOp)

\* The joins of a filter and of its sub-filters, one per alias.
RECURSIVE AddJoins(_, _)
AddJoins(joins, more) ==
    IF more = <<>> THEN joins
    ELSE AddJoins(IF \E i \in DOMAIN joins : joins[i].as = Head(more).as
                  THEN joins ELSE Append(joins, Head(more)),
                  Tail(more))

RECURSIVE getAllJoins(_)
getAllJoins(f) ==
    IF f.subFilter = <<>> THEN f.joins
    ELSE AddJoins(f.joins, getAllJoins(f.subFilter[1]))

(***************************************************************************)
(* queryBuilder: the query makeQuery builds for Query and QueryCount.      *)
(***************************************************************************)
\* qb.newQuery() with query.body = selectDistinctIDs(imageTable)
NewQuery ==
    [body |-> "SELECT DISTINCT images.id FROM images", whereClauses |-> <<>>,
     havingClauses |-> <<>>, args |-> <<>>, joins |-> <<>>,
     sortAndPagination |-> <<>>]

SearchColumns == <<"images.title", "images.path", "images.checksum">>

\* getSearchBinding(searchColumns, q, false): one LIKE per column, joined by OR,
\* each with the search term as its argument.
SearchClause(q) ==
    [sql |-> [op |-> "like", cols |-> SearchColumns, n |-> Len(SearchColumns)],
     args |-> [k \in DOMAIN SearchColumns |-> q]]

\* query.addFilter(filter)
QueryAddFilter(query, f) ==
    LET w == generateWhereClauses(f)
        h == generateHavingClauses(f)
    IN  [query EXCEPT !.whereClauses = @ \o w.sql,
                      !.havingClauses = @ \o h.sql,
                      !.args = @ \o w.args \o h.args,
                      !.joins = AddJoins(@, getAllJoins(f))]

\* findFilter.GetSort("title") and findFilter.GetDirection()
getImageSort(ff) ==
    LET sort == IF ff.Sort = <<>> THEN "title" ELSE ff.Sort[1]
        direction == IF ff.Direction = <<>> THEN "ASC" ELSE ff.Direction[1]
    IN  CASE sort = "performer_count" ->
                [by |-> "count", table |-> "performers_images", direction |-> direction]
          [] OTHER -> [by |-> sort, table |-> "images", direction |-> direction]

DefaultPerPage == 25
MaxPerPage == 1000

\* getPagination(findFilter): LIMIT perPage OFFSET (page - 1) * perPage
getPagination(ff) ==
    LET page == IF ff.Page = <<>> \/ ff.Page[1] < 1 THEN 1 ELSE ff.Page[1]
        asked == IF ff.PerPage = <<>> THEN DefaultPerPage ELSE ff.PerPage[1]
        perPage == IF asked > MaxPerPage THEN MaxPerPage ELSE IF asked < 0 THEN 0 ELSE asked
    IN  [limit |-> perPage, offset |-> (page - 1) * perPage]

\* makeQuery(imageFilter, findFilter): the error and, without error, the query.
makeQuery(imgFilter, fndFilter) ==
    LET f == IF imgFilter = <<>> THEN EmptyFilter ELSE imgFilter[1]
        ff == IF fndFilter = <<>> THEN EmptyFindFilter ELSE fndFilter[1]
        q0 == NewQuery
        q1 == IF ff.Q # <<>> /\ ff.Q[1] # ""
              THEN [q0 EXCEPT !.whereClauses = Append(@, SearchClause(ff.Q[1]).sql),
                              !.args = @ \o SearchClause(ff.Q[1]).args]
              ELSE q0
        err == validateFilter(f)
    IN  IF err # "nil"
        THEN [err |-> err, query |-> <<>>]
        ELSE [err |-> "nil",
              query |-> <<[QueryAddFilter(q1, makeFilter(f)) EXCEPT
                             !.sortAndPagination =
                                <<[sort |-> getImageSort(ff), page |-> getPagination(ff)]>>]>>]

(***************************************************************************)
(* The store running a query: the rows of images LEFT JOINed with the      *)
(* joins of the query, each a record of the image id and the foreign       *)
(* column of every join (NULL for a join that is absent or has no row),    *)
(* filtered by WHERE, grouped by images.id and filtered by HAVING. A       *)
(* condition has one of the three values of SQL: "true", "false", "null".  *)
(***************************************************************************)
HasJoin(joins, as) == \E k \in DOMAIN joins : joins[k].as = as

OrNull(set) == IF set = {} THEN {NULL} ELSE set

\* The rows of a join table, by image.
LinkTable(table) ==
    CASE table = "performers_images" -> imageDB.performersImages
      [] table = "images_tags" -> imageDB.imagesTags
      [] table = "galleries_images" -> imageDB.galleriesImages

JoinRows(i, joins) ==
    LET Joined(as, table) == IF HasJoin(joins, as) THEN OrNull(LinkTable(table)[i]) ELSE {NULL}
        TagsOf(q) == IF HasJoin(joins, "performer_tags_join") /\ q # NULL
                     THEN OrNull(imageDB.performersTags[q]) ELSE {NULL}
    IN  UNION {{[id |-> i, performer_id |-> q, tag_id |-> g, image_tag_id |-> t,
                 gallery_id |-> y] :
                   g \in TagsOf(q),
                   t \in Joined("tags_join", "images_tags"),
                   y \in Joined("galleries_join", "galleries_images")} :
                 q \in Joined("performers_join", "performers_images")}

\* The value of a column <<table or alias, column>> on a row.
ColumnValue(row, col) ==
    CASE col = <<"performer_tags_join", "tag_id">> -> row.tag_id
      [] col = <<"performers_join", "performer_id">> -> row.performer_id
      [] col = <<"performers_join", "image_id">> ->
            IF row.performer_id = NULL THEN NULL ELSE row.id
      [] col = <<"tags_join", "tag_id">> -> row.image_tag_id
      [] col = <<"tags_join", "image_id">> -> IF row.image_tag_id = NULL THEN NULL ELSE row.id
      [] col = <<"galleries_join", "gallery_id">> -> row.gallery_id
      [] col = <<"galleries_join", "image_id">> ->
            IF row.gallery_id = NULL THEN NULL ELSE row.id
      [] col = <<"images", "studio_id">> -> imageDB.studioID[row.id]
      [] OTHER -> row.id

\* The text of a searched column of an image: the model's images carry a path
\* and a title.
ColumnText(row, col) ==
    CASE col = "images.path" -> imageDB.paths[row.id]
      [] col = "images.title" ->
            IF imageDB.titles[row.id] = <<>> THEN "" ELSE imageDB.titles[row.id][1]
      [] OTHER -> ""

\* text LIKE %q%, for the texts and the one-letter terms of the model
Like(text, q) == text = q \/ Trim(text) = q

\* The number of placeholders of a term.
RECURSIVE Placeholders(_)
RECURSIVE PlaceholdersOf(_)
Placeholders(term) ==
    IF term.op \in {"and", "or", "not"} THEN PlaceholdersOf(term.terms) ELSE term.n
PlaceholdersOf(terms) ==
    IF terms = <<>> THEN 0 ELSE Placeholders(Head(terms)) + PlaceholdersOf(Tail(terms))

\* The three-valued logic of SQL.
Bool3(b) == IF b THEN "true" ELSE "false"
Not3(a) == CASE a = "true" -> "false" [] a = "false" -> "true" [] OTHER -> "null"
And3(a, b) ==
    IF a = "false" \/ b = "false" THEN "false"
    ELSE IF a = "null" \/ b = "null" THEN "null" ELSE "true"
Or3(a, b) ==
    IF a = "true" \/ b = "true" THEN "true"
    ELSE IF a = "null" \/ b = "null" THEN "null" ELSE "false"

\* count <cmp> value
Compare(cmp, count, value) ==
    CASE cmp = "=" -> count = value
      [] cmp = "!=" -> count # value
      [] cmp = ">" -> count > value
      [] cmp = "<" -> count < value

\* The value of a WHERE term on a row, its placeholders bound to args in order.
RECURSIVE EvalTerm(_, _, _)
RECURSIVE EvalAll(_, _, _)
RECURSIVE EvalAny(_, _, _)
EvalTerm(term, args, row) ==
    CASE term.op = "in" ->
            IF ColumnValue(row, term.col) = NULL THEN "null"
            ELSE Bool3(ColumnValue(row, term.col) \in Range(args))
      [] term.op = "not_in" ->
            IF ColumnValue(row, term.col) = NULL THEN "null"
            ELSE Bool3(ColumnValue(row, term.col) \notin Range(args))
      [] term.op = "is_null" -> Bool3(ColumnValue(row, term.col) = NULL)
      [] term.op = "is_null_or_blank" ->
            Bool3(imageDB.titles[row.id] = <<>> \/ IsBlank(imageDB.titles[row.id][1]))
      [] term.op = "count_cmp" ->
            Bool3(Compare(term.cmp, Cardinality(LinkTable(term.table)[row.id]), args[1]))
      [] term.op = "id_not_in_link" ->
            Bool3(LinkTable(term.table)[row.id] \cap Range(args) = {})
      [] term.op = "not_exists_tag_in" ->
            Bool3(~ \E q \in imageDB.performersImages[row.id] :
                      imageDB.performersTags[q] \cap Range(args) # {})
      [] term.op = "like" ->
            Bool3(\E k \in DOMAIN term.cols : Like(ColumnText(row, term.cols[k]), args[k]))
      [] term.op = "and" -> EvalAll(term.terms, args, row)
      [] term.op = "or" -> EvalAny(term.terms, args, row)
      [] term.op = "not" -> Not3(EvalTerm(term.terms[1], args, row))

EvalAll(terms, args, row) ==
    IF terms = <<>> THEN "true"
    ELSE LET k == Placeholders(Head(terms))
         IN  And3(EvalTerm(Head(terms), SubSeq(args, 1, k), row),
                  EvalAll(Tail(terms), SubSeq(args, k + 1, Len(args)), row))

EvalAny(terms, args, row) ==
    IF terms = <<>> THEN "false"
    ELSE LET k == Placeholders(Head(terms))
         IN  Or3(EvalTerm(Head(terms), SubSeq(args, 1, k), row),
                 EvalAny(Tail(terms), SubSeq(args, k + 1, Len(args)), row))

\* The value of a HAVING term on the rows of a group.
RECURSIVE EvalHaving(_, _)
EvalHaving(term, group) ==
    CASE term.op = "count_distinct_is" ->
            Cardinality({ColumnValue(r, term.col) : r \in group} \ {NULL}) = term.value
      [] term.op = "and" -> \A k \in DOMAIN term.terms : EvalHaving(term.terms[k], group)
      [] term.op = "or" -> \E k \in DOMAIN term.terms : EvalHaving(term.terms[k], group)
      [] term.op = "not" -> ~EvalHaving(term.terms[1], group)

\* The ids the body of the query selects, before sort and pagination.
SelectedIDs(query) ==
    {i \in ImageIDs :
        LET group == {r \in JoinRows(i, query.joins) :
                        EvalAll(query.whereClauses, query.args, r) = "true"}
        IN  /\ imageDB.present[i]
            /\ group # {}
            /\ \A k \in DOMAIN query.havingClauses : EvalHaving(query.havingClauses[k], group)}

PathRank(path) == IF path = "a" THEN 1 ELSE 2

\* The sort key of an image: rows with equal keys come in any order.
SortKey(sort, i) ==
    CASE sort.by = "id" -> i
      [] sort.by = "path" -> PathRank(imageDB.paths[i])
      [] sort.by = "count" -> Cardinality(imageDB.performersImages[i])
      [] OTHER -> 0

\* The orders in which ORDER BY can return the ids.
Orders(ids, sort) ==
    {o \in [1..Cardinality(ids) -> ids] :
        /\ \A a, b \in DOMAIN o : a # b => o[a] # o[b]
        /\ \A a, b \in DOMAIN o :
              a < b => IF sort.direction = "DESC"
                       THEN SortKey(sort, o[a]) >= SortKey(sort, o[b])
                       ELSE SortKey(sort, o[a]) <= SortKey(sort, o[b])}

\* A find that returns every selected id, whatever page is asked for.
PaginateAll(o, page) == o

\* LIMIT limit OFFSET offset
Paginate(o, page) ==
    LET last == IF page.offset + page.limit < Len(o) THEN page.offset + page.limit ELSE Len(o)
    IN  SubSeq(o, page.offset + 1, last)

\* A find whose count is the number of ids of the page.
ExecuteFindCountOfPage(query, o) ==
    [ids |-> Paginate(o, query.sortAndPagination[1].page),
     count |-> Len(Paginate(o, query.sortAndPagination[1].page))]

\* query.executeFind(): the ids of the page and the count of the whole selection.
ExecuteFind(query, o) ==
    [ids |-> Paginate(o, query.sortAndPagination[1].page),
     count |-> Cardinality(SelectedIDs(query))]

\* query.executeCount()
ExecuteCount(query) == Cardinality(SelectedIDs(query))

(***************************************************************************)
(* Initial states of a whole run. The task is as CreateImportTask leaves   *)
(* it, with any policy the caller sent; every manifest lists ManifestLen   *)
(* entries; the run meets at most one disturbance: an i/o failure (a       *)
(* record that cannot be read, a commit that fails, a scraped item that    *)
(* cannot be created) or a row that is in the store before the run. A run  *)
(* with Reset set wipes the store first, so what can disturb it is a row   *)
(* in the store or the reset failing.                                      *)
(***************************************************************************)
FaultPoints ==
    {[type |-> t, name |-> n, kind |-> k] :
        t \in ManifestTypes, n \in EntryNames, k \in {"read", "commit"}}
    \cup {[type |-> "scraped", name |-> n, kind |-> "create"] : n \in EntryNames}
    \cup {[type |-> "scraped", name |-> 0, kind |-> "commit"]}

EmptyStore == [t \in SimpleTypes |-> [n \in EntryNames |-> "none"]]
EmptyStudios == [n \in StudioNames |-> Absent]
EmptyScraped == [n \in EntryNames |-> Absent]
EmptyLinks == [n \in EntryNames |-> {}]
EmptyCounts == [t \in SimpleTypes |-> [n \in EntryNames |-> 0]]

Init ==
    /\ pc = "start"
    /\ idx = 1
    /\ DuplicateBehaviour \in DuplicateEnum \cup {"INVALID"}
    /\ MissingRefBehaviour \in MissingRefEnum \cup {"INVALID"}
    /\ Reset \in BOOLEAN
    /\ startFault \in {"none", "unzip", "mappings"} \cup (IF Reset THEN {"reset"} ELSE {})
    /\ mappings = [t \in ManifestTypes |-> Ident(ManifestLen)]
    /\ studioJSON \in [EntryNames -> {NoParent} \cup EntryNames]
    /\ scraped \in {<<>>, Ident(ManifestLen)}
    /\ sceneJSON = [n \in EntryNames |-> [tags |-> {n}, markers |-> <<n>>]]
    /\ sceneTags = EmptyLinks
    /\ markerRows = EmptyLinks
    /\ \/ /\ faults = {}
          /\ store = EmptyStore
          /\ rowCount = EmptyCounts
          /\ studioRows = EmptyStudios
       \/ /\ ~Reset
          /\ \E f \in FaultPoints : faults = {f}
          /\ store = EmptyStore
          /\ rowCount = EmptyCounts
          /\ studioRows = EmptyStudios
       \/ /\ faults = {}
          /\ \E t \in SimpleTypes, n \in EntryNames :
                /\ store = [EmptyStore EXCEPT ![t][n] = "old"]
                /\ rowCount = [EmptyCounts EXCEPT ![t][n] = 1]
          /\ studioRows = EmptyStudios
       \/ /\ faults = {}
          /\ store = EmptyStore
          /\ rowCount = EmptyCounts
          /\ \E n \in EntryNames : studioRows = [EmptyStudios EXCEPT ![n] = NoParent]
    /\ scrapedRows = EmptyScraped
    /\ pendingParent = EmptyMap
    /\ rangeTodo = {}
    /\ rangeCur = <<>>
    /\ errlog = {}
    /\ attempted = {}
    /\ lastTxn = NoTxn
    /\ NoQuery

(***************************************************************************)
(* Start, up to the first Import step.                                     *)
(***************************************************************************)
\* A Start that goes on without its mappings.
MappingsMissingIgnored == FALSE

\* t.mappings == nil after getMappings
MappingsMissing == startFault = "mappings"

Start ==
    /\ pc = "start"
    /\ IF startFault = "unzip"
       THEN /\ errlog' = errlog \cup {LogEntry("error", "start", 0, "unzip")}
            /\ pc' = "done"
            /\ UNCHANGED <<DuplicateBehaviour, MissingRefBehaviour, store, studioRows,
                           sceneTags, markerRows, rowCount>>
       ELSE /\ DuplicateBehaviour' = DefaultDuplicate(DuplicateBehaviour)
            /\ MissingRefBehaviour' = DefaultMissingRef(MissingRefBehaviour)
            /\ IF MappingsMissing
               THEN /\ errlog' = errlog \cup {LogEntry("error", "start", 0, "mappings")}
                    /\ pc' = "done"
                    /\ UNCHANGED <<store, studioRows, sceneTags, markerRows, rowCount>>
               ELSE IF Reset /\ startFault = "reset"
               THEN /\ errlog' = errlog \cup {LogEntry("error", "start", 0, "reset")}
                    /\ pc' = "done"
                    /\ UNCHANGED <<store, studioRows, sceneTags, markerRows, rowCount>>
               ELSE /\ store' = IF Reset THEN EmptyStore ELSE store
                    /\ studioRows' = IF Reset THEN EmptyStudios ELSE studioRows
                    /\ sceneTags' = IF Reset THEN EmptyLinks ELSE sceneTags
                    /\ markerRows' = IF Reset THEN EmptyLinks ELSE markerRows
                    /\ rowCount' = IF Reset THEN EmptyCounts ELSE rowCount
                    /\ pc' = StartSteps[1]
                    /\ UNCHANGED errlog
    /\ UNCHANGED <<idx, Reset, startFault, mappings, studioJSON, scraped, faults, scrapedRows,
                   pendingParent, rangeTodo, rangeCur, attempted, lastTxn, sceneJSON,
                   queryVars>>

(***************************************************************************)
(* One iteration of the loop of ImportTags, ImportPerformers, ImportMovies,*)
(* ImportGalleries or ImportImages.                                        *)
(***************************************************************************)
ImportInstance(t) ==
    /\ pc = t
    /\ idx <= Len(mappings[t])
    /\ LET name == mappings[t][idx]
       IN  /\ attempted' = attempted \cup {<<t, name>>}
           /\ IF Fails(t, name, "read")
              THEN /\ errlog' = errlog \cup {LogEntry(ReadFailLevel(t), t, name, "read")}
                   /\ idx' = AfterFailure(t, idx)
                   /\ UNCHANGED <<store, lastTxn, rowCount>>
              ELSE LET r == PerformImport(store[t], name)
                       err == TxnErr(r, Fails(t, name, "commit"))
                   IN  /\ store' = [store EXCEPT ![t] = TxnRows(store[t], r.rows, err)]
                       /\ rowCount' = [rowCount EXCEPT ![t] =
                                         TxnRows(@, Inserted(@, r.created), err)]
                       /\ lastTxn' = [type |-> t, name |-> name,
                                      written |-> {<<t, n>> : n \in r.written},
                                      committed |-> err = "nil"]
                       /\ errlog' = IF err = "nil" THEN errlog
                                    ELSE errlog \cup {LogEntry("error", t, name, err)}
                       /\ idx' = IF err = "nil" THEN idx + 1 ELSE AfterFailure(t, idx)
    /\ UNCHANGED <<pc, DuplicateBehaviour, MissingRefBehaviour, Reset, startFault, mappings,
                   studioJSON, scraped, faults, studioRows, scrapedRows, pendingParent,
                   rangeTodo, rangeCur, sceneVars, queryVars>>

(***************************************************************************)
(* One iteration of the loop of ImportScenes: the scene and then each of   *)
(* its markers, in one transaction.                                        *)
(***************************************************************************)
ImportScene ==
    /\ pc = "scenes"
    /\ idx <= Len(mappings["scenes"])
    /\ LET name == mappings["scenes"][idx]
       IN  IF Fails("scenes", name, "read")
           THEN /\ errlog' = errlog \cup {LogEntry(ReadFailLevel("scenes"), "scenes", name, "read")}
                /\ idx' = AfterFailure("scenes", idx)
                /\ attempted' = attempted \cup {<<"scenes", name>>}
                /\ UNCHANGED <<store, lastTxn, rowCount, sceneTags, markerRows>>
           ELSE LET db == [tags |-> store["tags"], scenes |-> store["scenes"],
                           links |-> sceneTags, markers |-> markerRows, counts |-> rowCount]
                    r == ImportSceneTxn(db, name)
                    err == TxnErr(r, Fails("scenes", name, "commit"))
                    after == TxnRows(db, r.db, err)
                IN  /\ store' = [store EXCEPT !["tags"] = after.tags,
                                              !["scenes"] = after.scenes]
                    /\ sceneTags' = after.links
                    /\ markerRows' = after.markers
                    /\ rowCount' = after.counts
                    /\ lastTxn' = [type |-> "scenes", name |-> name, written |-> r.written,
                                   committed |-> err = "nil"]
                    /\ attempted' = attempted \cup {<<"scenes", name>>}
                                        \cup {<<"markers", <<name, j>>>> : j \in r.tried}
                    /\ errlog' = IF err = "nil" THEN errlog
                                 ELSE errlog \cup {LogEntry("error", "scenes", name, err)}
                    /\ idx' = IF err = "nil" THEN idx + 1 ELSE AfterFailure("scenes", idx)
    /\ UNCHANGED <<pc, DuplicateBehaviour, MissingRefBehaviour, Reset, startFault, mappings,
                   studioJSON, scraped, faults, studioRows, scrapedRows, pendingParent,
                   rangeTodo, rangeCur, sceneJSON, queryVars>>

\* The loop of a simple type is over: the function returns and Start calls the next.
ImportComplete(t) ==
    /\ pc = t
    /\ idx > Len(mappings[t])
    /\ pc' = NextStep(t)
    /\ idx' = 1
    /\ UNCHANGED <<DuplicateBehaviour, MissingRefBehaviour, Reset, startFault, mappings,
                   studioJSON, scraped, faults, store, studioRows, scrapedRows, pendingParent,
                   rangeTodo, rangeCur, errlog, attempted, lastTxn>>
    /\ UNCHANGED <<sceneVars, rowCount, queryVars>>

(***************************************************************************)
(* ImportStudios, first pass: one iteration of the loop over the manifest. *)
(***************************************************************************)
\* pendingParent[parent] = append(pendingParent[parent], studio)
MapAppend(pend, parent, name) ==
    [k \in DOMAIN pend \cup {parent} |->
        IF k = parent
        THEN (IF parent \in DOMAIN pend THEN Append(pend[parent], name) ELSE <<name>>)
        ELSE pend[k]]

ImportStudiosEntry ==
    /\ pc = "studios"
    /\ idx <= Len(mappings["studios"])
    /\ LET name == mappings["studios"][idx]
       IN  /\ attempted' = attempted \cup {<<"studios", name>>}
           /\ IF Fails("studios", name, "read")
              THEN /\ errlog' = errlog \cup {LogEntry("error", "studios", name, "read")}
                   /\ idx' = AfterFailure("studios", idx)
                   /\ UNCHANGED <<studioRows, pendingParent, lastTxn>>
              ELSE LET r == ImportStudio(name, FALSE, pendingParent, studioRows)
                       err == TxnErr(r, Fails("studios", name, "commit"))
                   IN  /\ studioRows' = TxnRows(studioRows, r.st, err)
                       /\ lastTxn' = [type |-> "studios", name |-> name,
                                      written |-> {<<"studios", n>> : n \in r.written},
                                      committed |-> err = "nil"]
                       /\ pendingParent' =
                            IF err = ErrParentStudioNotExist
                            THEN MapAppend(r.pend, studioJSON[name], name)
                            ELSE r.pend
                       /\ errlog' = IF err \in {"nil", ErrParentStudioNotExist} THEN errlog
                                    ELSE errlog \cup {LogEntry("error", "studios", name, err)}
                       /\ idx' = IF err = "nil" THEN idx + 1 ELSE AfterFailure("studios", idx)
    /\ UNCHANGED <<pc, DuplicateBehaviour, MissingRefBehaviour, Reset, startFault, mappings,
                   studioJSON, scraped, faults, store, scrapedRows, rangeTodo, rangeCur>>
    /\ UNCHANGED <<sceneVars, rowCount, queryVars>>

\* The manifest's studios are exhausted: the leftover loop starts to range over the map.
StudiosFirstPassDone ==
    /\ pc = "studios"
    /\ idx > Len(mappings["studios"])
    /\ pc' = "studios_leftover"
    /\ rangeTodo' = DOMAIN pendingParent
    /\ rangeCur' = <<>>
    /\ errlog' = IF DOMAIN pendingParent = {} THEN errlog
                 ELSE errlog \cup {LogEntry("warn", "studios", 0, "missing parents")}
    /\ UNCHANGED <<idx, DuplicateBehaviour, MissingRefBehaviour, Reset, startFault, mappings,
                   studioJSON, scraped, faults, store, studioRows, scrapedRows, pendingParent,
                   attempted, lastTxn>>
    /\ UNCHANGED <<sceneVars, rowCount, queryVars>>

(***************************************************************************)
(* ImportStudios, leftover phase: one iteration of the inner loop. The     *)
(* range over the map visits its keys in an order the language leaves      *)
(* open, and each key's list in order.                                     *)
(***************************************************************************)
ImportOrphan(name, cur, todo) ==
    LET r == ImportStudio(name, TRUE, EmptyMap, studioRows)
        err == TxnErr(r, Fails("studios", name, "commit"))
    IN  /\ studioRows' = TxnRows(studioRows, r.st, err)
        /\ lastTxn' = [type |-> "studios", name |-> name,
                       written |-> {<<"studios", n>> : n \in r.written},
                       committed |-> err = "nil"]
        /\ errlog' = IF err = "nil" THEN errlog
                     ELSE errlog \cup {LogEntry("error", "studios", name, err)}
        /\ rangeCur' = cur
        /\ rangeTodo' = todo

LeftoverOrphan ==
    /\ pc = "studios_leftover"
    /\ IF rangeCur # <<>>
       THEN ImportOrphan(Head(rangeCur), Tail(rangeCur), rangeTodo)
       ELSE \E k \in rangeTodo :
                ImportOrphan(Head(pendingParent[k]), Tail(pendingParent[k]), rangeTodo \ {k})
    /\ UNCHANGED <<pc, idx, DuplicateBehaviour, MissingRefBehaviour, Reset, startFault, mappings,
                   studioJSON, scraped, faults, store, scrapedRows, pendingParent, attempted>>
    /\ UNCHANGED <<sceneVars, rowCount, queryVars>>

\* The range is over: ImportStudios returns (and its map with it).
StudiosComplete ==
    /\ pc = "studios_leftover"
    /\ rangeCur = <<>>
    /\ rangeTodo = {}
    /\ pc' = NextStep("studios")
    /\ idx' = 1
    /\ pendingParent' = EmptyMap
    /\ UNCHANGED <<DuplicateBehaviour, MissingRefBehaviour, Reset, startFault, mappings,
                   studioJSON, scraped, faults, store, studioRows, scrapedRows, rangeTodo,
                   rangeCur, errlog, attempted, lastTxn>>
    /\ UNCHANGED <<sceneVars, rowCount, queryVars>>

(***************************************************************************)
(* ImportScrapedItems: one transaction around the loop over t.scraped. A   *)
(* failed Create is logged and the loop goes on; fn returns nil.           *)
(***************************************************************************)
ScrapedStudio(i) ==
    IF i \in StudioNames /\ studioRows[i] # Absent THEN i ELSE NoParent

ImportScrapedItems ==
    /\ pc = "scraped"
    /\ LET created == {i \in Range(scraped) : ~Fails("scraped", i, "create")}
           after == [i \in EntryNames |->
                        IF i \in created THEN ScrapedStudio(i) ELSE scrapedRows[i]]
           err == IF Fails("scraped", 0, "commit") THEN "commit" ELSE "nil"
       IN  /\ scrapedRows' = TxnRows(scrapedRows, after, err)
           /\ lastTxn' = [type |-> "scraped", name |-> 0,
                          written |-> {<<"scraped", i>> : i \in created},
                          committed |-> err = "nil"]
           /\ errlog' = errlog
                \cup {LogEntry("error", "scraped", i, "create") : i \in Range(scraped) \ created}
                \cup (IF err = "nil" THEN {} ELSE {LogEntry("error", "scraped", 0, err)})
    /\ pc' = NextStep("scraped")
    /\ idx' = 1
    /\ UNCHANGED <<DuplicateBehaviour, MissingRefBehaviour, Reset, startFault, mappings,
                   studioJSON, scraped, faults, store, studioRows, pendingParent, rangeTodo,
                   rangeCur, attempted>>
    /\ UNCHANGED <<sceneVars, rowCount, queryVars>>

Next ==
    \/ Start
    \/ \E t \in PlainTypes : ImportInstance(t)
    \/ ImportScene
    \/ \E t \in SimpleTypes : ImportComplete(t)
    \/ ImportStudiosEntry
    \/ StudiosFirstPassDone
    \/ LeftoverOrphan
    \/ StudiosComplete
    \/ ImportScrapedItems

Spec == Init /\ [][Next]_vars

(***************************************************************************)
(* Start with any policies: the task of Init on an empty store, with no    *)
(* i/o failure after Start.                                                *)
(***************************************************************************)
InitPolicies ==
    /\ Init
    /\ faults = {}
    /\ store = EmptyStore
    /\ studioRows = EmptyStudios

SpecPolicies == InitPolicies /\ [][Next]_vars

(***************************************************************************)
(* ImportStudios on its own: a task with valid policies on an empty studio *)
(* table, and every manifest of 1..NumStudios studios, each naming no      *)
(* parent or any of the NumStudios names (itself, a studio of the          *)
(* manifest, or a name the manifest does not list).                        *)
(***************************************************************************)
InitStudios ==
    /\ pc = "studios"
    /\ idx = 1
    /\ DuplicateBehaviour \in DuplicateEnum
    /\ MissingRefBehaviour \in MissingRefEnum
    /\ Reset = FALSE
    /\ startFault = "none"
    /\ \E n \in StudioNames :
          /\ mappings = [t \in ManifestTypes |-> IF t = "studios" THEN Ident(n) ELSE <<>>]
          /\ studioJSON \in [1..n -> {NoParent} \cup StudioNames]
    /\ scraped = <<>>
    /\ sceneJSON = [n \in EntryNames |-> [tags |-> {}, markers |-> <<>>]]
    /\ sceneTags = EmptyLinks
    /\ markerRows = EmptyLinks
    /\ rowCount = EmptyCounts
    /\ faults = {}
    /\ store = EmptyStore
    /\ studioRows = EmptyStudios
    /\ scrapedRows = EmptyScraped
    /\ pendingParent = EmptyMap
    /\ rangeTodo = {}
    /\ rangeCur = <<>>
    /\ errlog = {}
    /\ attempted = {}
    /\ lastTxn = NoTxn
    /\ NoQuery

NextStudios ==
    \/ ImportStudiosEntry
    \/ StudiosFirstPassDone
    \/ LeftoverOrphan
    \/ StudiosComplete

SpecStudios == InitStudios /\ [][NextStudios]_vars

(***************************************************************************)
(* ImportStudios on its own, disturbed: a task with valid policies, a      *)
(* manifest of 1..ManifestLen + 1 studios, each naming no parent or a      *)
(* studio of the manifest (itself included), and at most one disturbance:  *)
(* a studio of the manifest that is in the table before the run, or a      *)
(* transaction of one studio whose commit fails.                           *)
(***************************************************************************)
InitStudioFaults ==
    /\ pc = "studios"
    /\ idx = 1
    /\ DuplicateBehaviour \in DuplicateEnum
    /\ MissingRefBehaviour \in MissingRefEnum
    /\ Reset = FALSE
    /\ startFault = "none"
    /\ \E n \in 1..(ManifestLen + 1) :
          /\ mappings = [t \in ManifestTypes |-> IF t = "studios" THEN Ident(n) ELSE <<>>]
          /\ studioJSON \in [1..n -> {NoParent} \cup (1..n)]
          /\ \/ /\ faults = {}
                /\ studioRows = EmptyStudios
             \/ /\ faults = {}
                /\ \E k \in 1..n : studioRows = [EmptyStudios EXCEPT ![k] = NoParent]
             \/ /\ \E k \in 1..n :
                      faults = {[type |-> "studios", name |-> k, kind |-> "commit"]}
                /\ studioRows = EmptyStudios
    /\ scraped = <<>>
    /\ sceneJSON = [n \in EntryNames |-> [tags |-> {}, markers |-> <<>>]]
    /\ sceneTags = EmptyLinks
    /\ markerRows = EmptyLinks
    /\ rowCount = EmptyCounts
    /\ store = EmptyStore
    /\ scrapedRows = EmptyScraped
    /\ pendingParent = EmptyMap
    /\ rangeTodo = {}
    /\ rangeCur = <<>>
    /\ errlog = {}
    /\ attempted = {}
    /\ lastTxn = NoTxn
    /\ NoQuery

SpecStudioFaults == InitStudioFaults /\ [][NextStudios]_vars

(***************************************************************************)
(* ImportScenes on its own: a task with valid policies, any set of the     *)
(* tags stored, at most one scene stored before the run (with or without   *)
(* its first marker), and a manifest of ManifestLen scenes, each naming no *)
(* tag, one tag or all of them, and carrying no marker or MaxMarkers       *)
(* markers, the j-th of which names tag MarkerTag(j).                      *)
(***************************************************************************)
MarkerTag(j) == ((j - 1) % ManifestLen) + 1

SceneRecords ==
    {[tags |-> ts, markers |-> [j \in 1..k |-> MarkerTag(j)]] :
        ts \in {{}, {1}, EntryNames}, k \in {0, MaxMarkers}}

InitScenes ==
    /\ pc = "scenes"
    /\ idx = 1
    /\ DuplicateBehaviour \in DuplicateEnum
    /\ MissingRefBehaviour \in MissingRefEnum
    /\ Reset = FALSE
    /\ startFault = "none"
    /\ mappings = [t \in ManifestTypes |-> IF t = "scenes" THEN Ident(ManifestLen) ELSE <<>>]
    /\ studioJSON = [n \in EntryNames |-> NoParent]
    /\ scraped = <<>>
    /\ sceneJSON \in [EntryNames -> SceneRecords]
    /\ faults = {}
    /\ \E stored \in SUBSET EntryNames :
          \/ /\ store = [EmptyStore EXCEPT !["tags"] =
                            [n \in EntryNames |-> IF n \in stored THEN "old" ELSE "none"]]
             /\ rowCount = [EmptyCounts EXCEPT !["tags"] =
                            [n \in EntryNames |-> IF n \in stored THEN 1 ELSE 0]]
             /\ markerRows = EmptyLinks
          \/ \E n \in EntryNames, m \in {{}, {1}} :
                /\ store = [EmptyStore EXCEPT
                              !["tags"] = [k \in EntryNames |->
                                            IF k \in stored THEN "old" ELSE "none"],
                              !["scenes"][n] = "old"]
                /\ rowCount = [EmptyCounts EXCEPT
                              !["tags"] = [k \in EntryNames |->
                                            IF k \in stored THEN 1 ELSE 0],
                              !["scenes"][n] = 1]
                /\ markerRows = [EmptyLinks EXCEPT ![n] = m]
    /\ sceneTags = EmptyLinks
    /\ studioRows = EmptyStudios
    /\ scrapedRows = EmptyScraped
    /\ pendingParent = EmptyMap
    /\ rangeTodo = {}
    /\ rangeCur = <<>>
    /\ errlog = {}
    /\ attempted = {}
    /\ lastTxn = NoTxn
    /\ NoQuery

NextScenes ==
    \/ ImportScene
    \/ ImportComplete("scenes")

SpecScenes == InitScenes /\ [][NextScenes]_vars

(***************************************************************************)
(* Query and QueryCount of the image query builder, each called once with  *)
(* the arguments imageFilter and findFilter on the tables imageDB. The     *)
(* store fails the statement qfault names, if any.                         *)
(***************************************************************************)
NoFault == [kind |-> "none", id |-> 0]
StoreError == "store error"

Statement(call, stmt, id) == [call |-> call, stmt |-> stmt, id |-> id]

\* The ids of a sequence up to and including the first whose fetch fails.
RECURSIVE FetchedUntilFailure(_)
FetchedUntilFailure(ids) ==
    IF ids = <<>> THEN {}
    ELSE IF qfault.kind = "fetch" /\ qfault.id = Head(ids) THEN {Head(ids)}
    ELSE {Head(ids)} \cup FetchedUntilFailure(Tail(ids))

\* A Query that returns what it has got so far together with the error.
QueryReturnPartial(ids, count, err) == [images |-> ids, count |-> count, err |-> err]

\* The return statements of Query: nil, 0, err on an error.
QueryReturn(ids, count, err) ==
    IF err # "nil"
    THEN [images |-> <<>>, count |-> 0, err |-> err]
    ELSE [images |-> ids, count |-> count, err |-> "nil"]

\* The ids of a sequence before the first whose fetch fails.
RECURSIVE FetchedBeforeFailure(_)
FetchedBeforeFailure(ids) ==
    IF ids = <<>> \/ (qfault.kind = "fetch" /\ qfault.id = Head(ids)) THEN <<>>
    ELSE <<Head(ids)>> \o FetchedBeforeFailure(Tail(ids))

Query ==
    /\ queryRet = <<>>
    /\ LET m == makeQuery(imageFilter, findFilter)
       IN  IF m.err # "nil"
           THEN /\ queryRet' = <<QueryReturn(<<>>, 0, m.err)>>
                /\ UNCHANGED executed
           ELSE \E o \in Orders(SelectedIDs(m.query[1]), m.query[1].sortAndPagination[1].sort) :
                  LET r == ExecuteFind(m.query[1], o)
                      fetched == FetchedUntilFailure(r.ids)
                  IN  IF qfault.kind \in {"ids", "count"}
                      THEN /\ queryRet' = <<QueryReturn(<<>>, 0, StoreError)>>
                           /\ executed' = executed \cup {Statement("Query", "count", 0),
                                                          Statement("Query", "ids", 0)}
                      ELSE /\ queryRet' =
                                IF qfault.kind = "fetch" /\ qfault.id \in fetched
                                THEN <<QueryReturn(FetchedBeforeFailure(r.ids), r.count,
                                                   StoreError)>>
                                ELSE <<QueryReturn(r.ids, r.count, "nil")>>
                           /\ executed' = executed
                                \cup {Statement("Query", "count", 0), Statement("Query", "ids", 0)}
                                \cup {Statement("Query", "find", i) : i \in fetched}
    /\ UNCHANGED <<importVars, imageDB, imageFilter, findFilter, qfault, countRet, txns,
                   download>>

QueryCount ==
    /\ countRet = <<>>
    /\ LET m == makeQuery(imageFilter, findFilter)
       IN  IF m.err # "nil"
           THEN /\ countRet' = <<[count |-> 0, err |-> m.err]>>
                /\ UNCHANGED executed
           ELSE /\ countRet' = IF qfault.kind = "count"
                               THEN <<[count |-> 0, err |-> StoreError]>>
                               ELSE <<[count |-> ExecuteCount(m.query[1]), err |-> "nil"]>>
                /\ executed' = executed \cup {Statement("QueryCount", "count", 0)}
    /\ UNCHANGED <<importVars, imageDB, imageFilter, findFilter, qfault, queryRet, txns,
                   download>>

NextQuery ==
    \/ Query
    \/ QueryCount

\* The import task is idle while the queries run.
ImportIdle ==
    /\ pc = "done"
    /\ idx = 1
    /\ DuplicateBehaviour = "FAIL"
    /\ MissingRefBehaviour = "FAIL"
    /\ Reset = FALSE
    /\ startFault = "none"
    /\ mappings = [t \in ManifestTypes |-> <<>>]
    /\ studioJSON = [n \in EntryNames |-> NoParent]
    /\ scraped = <<>>
    /\ sceneJSON = [n \in EntryNames |-> [tags |-> {}, markers |-> <<>>]]
    /\ sceneTags = EmptyLinks
    /\ markerRows = EmptyLinks
    /\ rowCount = EmptyCounts
    /\ faults = {}
    /\ store = EmptyStore
    /\ studioRows = EmptyStudios
    /\ scrapedRows = EmptyScraped
    /\ pendingParent = EmptyMap
    /\ rangeTodo = {}
    /\ rangeCur = <<>>
    /\ errlog = {}
    /\ attempted = {}
    /\ lastTxn = NoTxn

(***************************************************************************)
(* Queries over filter trees: every tree of at most MaxFilterNodes nodes   *)
(* (any of And, Or, Not populated at any node, no criterion), and the nil  *)
(* filter, with a nil findFilter on tables without links.                  *)
(***************************************************************************)
\* The trees of exactly k nodes, as pointers (the tree of no node is nil).
RECURSIVE TreesOfSize(_)
TreesOfSize(k) ==
    IF k = 0 THEN {<<>>}
    ELSE UNION {UNION {{<<[EmptyFilter EXCEPT !.And = a, !.Or = o, !.Not = x]>> :
                          a \in TreesOfSize(i), o \in TreesOfSize(j),
                          x \in TreesOfSize(k - 1 - i - j)} :
                      j \in 0..(k - 1 - i)} :
                i \in 0..(k - 1)}

FilterTrees == UNION {TreesOfSize(k) : k \in 0..MaxFilterNodes}

InitFilters ==
    /\ ImportIdle
    /\ imageDB = EmptyDB
    /\ imageFilter \in FilterTrees
    /\ findFilter = <<>>
    /\ qfault = NoFault
    /\ queryRet = <<>>
    /\ countRet = <<>>
    /\ executed = {}
    /\ txns = NoCalls
    /\ download = NoDownload

SpecFilters == InitFilters /\ [][NextQuery]_vars

(***************************************************************************)
(* Query and QueryCount with every findFilter: images with any paths, each *)
(* with performer 1 or none, every performer with tag 1; a nil, empty,     *)
(* criterion-carrying or illegal filter; and either any findFilter on a    *)
(* store that works, or a nil findFilter on a store that fails one         *)
(* statement.                                                              *)
(***************************************************************************)
PerformerTagsFilter(modifier, value) ==
    [EmptyFilter EXCEPT !.PerformerTags = <<[Value |-> value, Modifier |-> modifier]>>]

PerformersFilter(modifier, value) ==
    [EmptyFilter EXCEPT !.Performers = <<[Value |-> value, Modifier |-> modifier]>>]

QueryFilters ==
    {<<>>,
     <<EmptyFilter>>,
     <<PerformerTagsFilter("INCLUDES", <<1>>)>>,
     <<PerformerTagsFilter("INCLUDES_ALL", <<1>>)>>,
     <<[EmptyFilter EXCEPT !.Not = <<PerformerTagsFilter("INCLUDES", <<1>>)>>]>>,
     <<[EmptyFilter EXCEPT !.And = <<EmptyFilter>>, !.Or = <<EmptyFilter>>]>>,
     <<[PerformerTagsFilter("INCLUDES", <<1>>) EXCEPT
          !.And = <<[EmptyFilter EXCEPT !.Or = <<EmptyFilter>>, !.Not = <<EmptyFilter>>]>>]>>}

FindFilters ==
    {<<>>} \cup
    {<<[Q |-> q, Page |-> pg, PerPage |-> pp, Sort |-> st, Direction |-> dr]>> :
        q \in {<<>>, <<"">>, <<"a">>},
        pg \in {<<>>, <<2>>},
        pp \in {<<>>, <<0>>, <<1>>},
        st \in {<<>>, <<"id">>, <<"path">>, <<"performer_count">>},
        dr \in {<<>>, <<"DESC">>}}

QueryFaults ==
    {[kind |-> k, id |-> 0] : k \in {"ids", "count"}}
    \cup {[kind |-> "fetch", id |-> i] : i \in ImageIDs}

InitQuery ==
    /\ ImportIdle
    /\ \E paths \in [ImageIDs -> Paths], performers \in [ImageIDs -> {{}, {1}}] :
          imageDB = [EmptyDB EXCEPT !.paths = paths, !.performersImages = performers,
                                    !.performersTags = [q \in PerformerIDs |-> {1}]]
    /\ imageFilter \in QueryFilters
    /\ \/ findFilter \in FindFilters /\ qfault = NoFault
       \/ findFilter = <<>> /\ qfault \in QueryFaults
    /\ queryRet = <<>>
    /\ countRet = <<>>
    /\ executed = {}
    /\ txns = NoCalls
    /\ download = NoDownload

SpecQuery == InitQuery /\ [][NextQuery]_vars

(***************************************************************************)
(* Queries by one criterion: images with no performer, performer 1 or      *)
(* every performer; a filter with the performers criterion, or with the    *)
(* performer-tags criterion on performers with no tag, tag 1 or every tag, *)
(* under each modifier and every operand list of at most MaxOperands ids   *)
(* (repeated ids and the empty list included); a nil findFilter and a      *)
(* store that works.                                                       *)
(***************************************************************************)
\* The sequences over `set` of length at most n.
SeqsUpTo(set, n) == UNION {[1..k -> set] : k \in 0..n}

CriterionModifiers == {"INCLUDES", "INCLUDES_ALL", "EXCLUDES"}

InitCriteria ==
    /\ ImportIdle
    /\ \E performers \in [ImageIDs -> {{}, {1}, PerformerIDs}] :
          \/ \E tags \in [PerformerIDs -> {{}, {1}, TagIDs}],
                modifier \in CriterionModifiers,
                value \in SeqsUpTo(TagIDs, MaxOperands) :
                /\ imageDB = [EmptyDB EXCEPT !.performersImages = performers,
                                             !.performersTags = tags]
                /\ imageFilter = <<PerformerTagsFilter(modifier, value)>>
          \/ \E modifier \in CriterionModifiers,
                value \in SeqsUpTo(PerformerIDs, MaxOperands) :
                /\ imageDB = [EmptyDB EXCEPT !.performersImages = performers]
                /\ imageFilter = <<PerformersFilter(modifier, value)>>
    /\ findFilter = <<>>
    /\ qfault = NoFault
    /\ queryRet = <<>>
    /\ countRet = <<>>
    /\ executed = {}
    /\ txns = NoCalls
    /\ download = NoDownload

SpecCriteria == InitCriteria /\ [][NextQuery]_vars

(***************************************************************************)
(* Queries by is_missing: a filter with no is_missing, with the empty one  *)
(* or with one of the names the handler knows (the relations and studio)   *)
(* or the scalar column title, on tables where the column or relation      *)
(* asked for holds any value for each image.                               *)
(***************************************************************************)
IsMissingNames == {"studio", "performers", "galleries", "tags", "title"}

IsMissingFilter(isMissing) == [EmptyFilter EXCEPT !.IsMissing = isMissing]

\* The tables in which the column or relation `name` varies.
TablesVarying(name) ==
    CASE name = "studio" ->
            {[EmptyDB EXCEPT !.studioID = c] : c \in [ImageIDs -> {NULL, 1}]}
      [] name = "performers" ->
            {[EmptyDB EXCEPT !.performersImages = c] :
                c \in [ImageIDs -> {{}, {1}, PerformerIDs}]}
      [] name = "galleries" ->
            {[EmptyDB EXCEPT !.galleriesImages = c] : c \in [ImageIDs -> {{}, {1}}]}
      [] name = "tags" ->
            {[EmptyDB EXCEPT !.imagesTags = c] : c \in [ImageIDs -> {{}, {1}, TagIDs}]}
      [] OTHER ->
            {[EmptyDB EXCEPT !.titles = c] :
                c \in [ImageIDs -> {<<>>} \cup {<<text>> : text \in Texts}]}

InitMissing ==
    /\ ImportIdle
    /\ \/ \E name \in IsMissingNames :
             /\ imageFilter = <<IsMissingFilter(<<name>>)>>
             /\ imageDB \in TablesVarying(name)
       \/ /\ imageFilter \in {<<EmptyFilter>>, <<IsMissingFilter(<<"">>)>>}
          /\ imageDB \in TablesVarying("title") \cup TablesVarying("performers")
    /\ findFilter = <<>>
    /\ qfault = NoFault
    /\ queryRet = <<>>
    /\ countRet = <<>>
    /\ executed = {}
    /\ txns = NoCalls
    /\ download = NoDownload

SpecMissing == InitMissing /\ [][NextQuery]_vars

(***************************************************************************)
(* Queries by a count criterion: the tag count or the performer count      *)
(* under each numeric modifier and every value up to the number of tags,   *)
(* on images with no, one or every tag and no, one or every performer.     *)
(***************************************************************************)
CountModifiers == {"EQUALS", "NOT_EQUALS", "GREATER_THAN", "LESS_THAN"}

CountFilters ==
    {<<[EmptyFilter EXCEPT !.TagCount = <<[Value |-> n, Modifier |-> modifier]>>]>> :
        n \in 0..NumTags, modifier \in CountModifiers}
    \cup
    {<<[EmptyFilter EXCEPT !.PerformerCount = <<[Value |-> n, Modifier |-> modifier]>>]>> :
        n \in 0..NumTags, modifier \in CountModifiers}

InitCounts ==
    /\ ImportIdle
    /\ \E tags \in [ImageIDs -> {{}, {1}, TagIDs}],
          performers \in [ImageIDs -> {{}, {1}, PerformerIDs}] :
          imageDB = [EmptyDB EXCEPT !.imagesTags = tags, !.performersImages = performers]
    /\ imageFilter \in CountFilters
    /\ findFilter = <<>>
    /\ qfault = NoFault
    /\ queryRet = <<>>
    /\ countRet = <<>>
    /\ executed = {}
    /\ txns = NoCalls
    /\ download = NoDownload

SpecCounts == InitCounts /\ [][NextQuery]_vars

(***************************************************************************)
(* Queries by composed filters: a node has own criteria (none, a performer *)
(* tags criterion, is_missing or a performer count) and at most one        *)
(* sub-filter under And, Or or Not, itself such a node, down to            *)
(* ComposeDepth levels. Performer q has the tags 1..q, and an image has no *)
(* performer or one.                                                       *)
(***************************************************************************)
ComposeDepth == 3

\* The own criteria of a node.
OwnCriteria ==
    {EmptyFilter,
     PerformerTagsFilter("INCLUDES", <<1>>),
     PerformerTagsFilter("INCLUDES", <<2>>),
     PerformerTagsFilter("EXCLUDES", <<1>>),
     IsMissingFilter(<<"performers">>),
     [EmptyFilter EXCEPT !.PerformerCount = <<[Value |-> 0, Modifier |-> "GREATER_THAN"]>>]}

\* The valid filters of at most k levels.
RECURSIVE ComposedFilters(_)
ComposedFilters(k) ==
    IF k = 1 THEN OwnCriteria
    ELSE OwnCriteria
         \cup {[c EXCEPT !.And = <<f>>] : c \in OwnCriteria, f \in ComposedFilters(k - 1)}
         \cup {[c EXCEPT !.Or = <<f>>] : c \in OwnCriteria, f \in ComposedFilters(k - 1)}
         \cup {[c EXCEPT !.Not = <<f>>] : c \in OwnCriteria, f \in ComposedFilters(k - 1)}

InitCompose ==
    /\ ImportIdle
    /\ \E performers \in [ImageIDs -> {{}} \cup {{q} : q \in PerformerIDs}] :
          imageDB = [EmptyDB EXCEPT !.performersImages = performers,
                                    !.performersTags = [q \in PerformerIDs |-> 1..q]]
    /\ \E f \in ComposedFilters(ComposeDepth) : imageFilter = <<f>>
    /\ findFilter = <<>>
    /\ qfault = NoFault
    /\ queryRet = <<>>
    /\ countRet = <<>>
    /\ executed = {}
    /\ txns = NoCalls
    /\ download = NoDownload

SpecCompose == InitCompose /\ [][NextQuery]_vars

(***************************************************************************)
(* Query plans: a node carries any of is_missing = performers, a           *)
(* performers criterion, a performer-tags criterion and a performer count  *)
(* (three of them ask for the join performers_join), and at most one       *)
(* sub-filter, itself such a node, under And, Or or Not; with and without  *)
(* a search term; on images with no performer or every performer, where    *)
(* performer q has the tags 1..q.                                          *)
(***************************************************************************)
PlanNodes ==
    {[EmptyFilter EXCEPT !.IsMissing = m, !.Performers = p, !.PerformerCount = c,
                         !.PerformerTags = t] :
        m \in {<<>>, <<"performers">>},
        p \in {<<>>, <<[Value |-> <<2, 1>>, Modifier |-> "INCLUDES"]>>},
        c \in {<<>>, <<[Value |-> 1, Modifier |-> "EQUALS"]>>},
        t \in {<<>>, <<[Value |-> <<1>>, Modifier |-> "INCLUDES"]>>,
                     <<[Value |-> <<1, 2>>, Modifier |-> "INCLUDES_ALL"]>>}}

PlanFilters ==
    PlanNodes
    \cup {[c EXCEPT !.And = <<f>>] : c \in PlanNodes, f \in PlanNodes}
    \cup {[c EXCEPT !.Or = <<f>>] : c \in PlanNodes, f \in PlanNodes}
    \cup {[c EXCEPT !.Not = <<f>>] : c \in PlanNodes, f \in PlanNodes}

InitPlans ==
    /\ ImportIdle
    /\ \E performers \in [ImageIDs -> {{}, PerformerIDs}] :
          imageDB = [EmptyDB EXCEPT !.performersImages = performers,
                                    !.performersTags = [q \in PerformerIDs |-> 1..q]]
    /\ \E f \in PlanFilters : imageFilter = <<f>>
    /\ findFilter \in {<<>>, <<[EmptyFindFilter EXCEPT !.Q = <<"a">>]>>}
    /\ qfault = NoFault
    /\ queryRet = <<>>
    /\ countRet = <<>>
    /\ executed = {}
    /\ txns = NoCalls
    /\ download = NoDownload

SpecPlans == InitPlans /\ [][NextQuery]_vars

(***************************************************************************)
(* The store under concurrent callers. A repository is built on a          *)
(* transaction (tx), so every caller runs its calls in a transaction of    *)
(* its own: its statements change a copy of the tables that no other       *)
(* caller sees, taken at its first write together with the write lock of   *)
(* the store; a commit puts the copy in place and a rollback drops it. A   *)
(* statement can fail (the store is busy, a constraint, i/o): the call     *)
(* returns the error and the transaction is rolled back.                   *)
(***************************************************************************)
GalleryIDs == 1..NumGalleries

\* The query variables of a store no query is made on.
QueryIdle ==
    /\ download = NoDownload
    /\ imageFilter = <<>>
    /\ findFilter = <<>>
    /\ qfault = NoFault
    /\ queryRet = <<>>
    /\ countRet = <<>>
    /\ executed = {}

storeFrame ==
    <<importVars, imageFilter, findFilter, qfault, queryRet, countRet, executed, download>>

\* The tables as caller c reads them, and whether c can take the write lock.
View(c) == IF txns[c].work = <<>> THEN imageDB ELSE txns[c].work[1]
WriteLockFree(c) == \A d \in Callers \ {c} : txns[d].work = <<>>

\* The rows of a join table of tables db, by image, and db with the rows of
\* image i in that table replaced.
Links(db, table) ==
    CASE table = "performers_images" -> db.performersImages
      [] table = "images_tags" -> db.imagesTags
      [] table = "galleries_images" -> db.galleriesImages
WithTable(db, table, rows) ==
    CASE table = "performers_images" -> [db EXCEPT !.performersImages = rows]
      [] table = "images_tags" -> [db EXCEPT !.imagesTags = rows]
      [] table = "galleries_images" -> [db EXCEPT !.galleriesImages = rows]
WithLinks(db, table, i, set) ==
    WithTable(db, table, [Links(db, table) EXCEPT ![i] = set])

ReplaceOps == {"UpdateGalleries", "UpdatePerformers", "UpdateTags"}
GetIDsOps == {"GetGalleryIDs", "GetPerformerIDs", "GetTagIDs"}

\* Every Update<Relation> on the repository of the performers.
ReplaceRepositoryOfPerformers(op) == performersRepository

\* The repository Update<Relation> calls replace on.
ReplaceRepository(op) ==
    CASE op = "UpdateGalleries" -> galleriesRepository
      [] op = "UpdatePerformers" -> performersRepository
      [] op = "UpdateTags" -> tagsRepository

\* The repository Get<Relation>IDs calls getIDs on.
GetIDsRepository(op) ==
    CASE op = "GetGalleryIDs" -> galleriesRepository
      [] op = "GetPerformerIDs" -> performersRepository
      [] op = "GetTagIDs" -> tagsRepository

\* The Get<Relation>IDs of the relation Update<Relation> replaces.
GetterOf(op) ==
    CASE op = "UpdateGalleries" -> "GetGalleryIDs"
      [] op = "UpdatePerformers" -> "GetPerformerIDs"
      [] op = "UpdateTags" -> "GetTagIDs"

\* The ids of the entities a repository links images to.
RelatedIDs(r) ==
    CASE r.fkColumn = "gallery_id" -> GalleryIDs
      [] r.fkColumn = "performer_id" -> PerformerIDs
      [] OTHER -> TagIDs

\* The position of replace after its statement k - 1: insert the k-th id, or return.
AfterStatement(ids, k) == IF k > Len(ids) THEN "updated" ELSE "insert"

\* A transaction whose statement failed: the call returns the error.
Failed(txn) == [txn EXCEPT !.pc = "failed", !.err = StoreError]

\* joinRepository.replace(id, foreignIDs), first statement: r.destroy([]int{id})
ReplaceDestroy(c) ==
    /\ txns[c].pc = "replace"
    /\ LET call == txns[c].call
           r == ReplaceRepository(call.op)
       IN  \/ txns' = [txns EXCEPT ![c] = Failed([@ EXCEPT !.before = <<imageDB>>])]
           \/ /\ WriteLockFree(c)
              /\ txns' = [txns EXCEPT ![c] =
                    [@ EXCEPT !.before = <<imageDB>>,
                              !.work = <<WithLinks(View(c), r.tableName, call.id, {})>>,
                              !.k = 1,
                              !.pc = AfterStatement(call.ids, 1)]]
    /\ UNCHANGED <<storeFrame, imageDB>>

\* joinRepository.replace, the loop: r.insert(id, fk) for the k-th foreign id
ReplaceInsert(c) ==
    /\ txns[c].pc = "insert"
    /\ LET call == txns[c].call
           r == ReplaceRepository(call.op)
           k == txns[c].k
       IN  \/ txns' = [txns EXCEPT ![c] = Failed(@)]
           \/ txns' = [txns EXCEPT ![c] =
                 [@ EXCEPT !.work =
                             <<WithLinks(View(c), r.tableName, call.id,
                                         Links(View(c), r.tableName)[call.id]
                                            \cup {call.ids[k]})>>,
                           !.k = k + 1,
                           !.pc = AfterStatement(call.ids, k + 1)]]
    /\ UNCHANGED <<storeFrame, imageDB>>

\* Get<Relation>IDs(imageID): by the caller that replaced the links, in its
\* transaction, or by a caller that only reads.
GetIDs(c) ==
    /\ LET call == txns[c].call
       IN  \/ /\ txns[c].pc = "updated"
              /\ txns' = [txns EXCEPT ![c] =
                    [@ EXCEPT !.ret = <<Links(View(c),
                                              GetIDsRepository(GetterOf(call.op)).tableName)
                                           [call.id]>>,
                              !.pc = "read"]]
           \/ /\ txns[c].pc = "get"
              /\ txns' = [txns EXCEPT ![c] =
                    [@ EXCEPT !.ret = <<Links(View(c),
                                              GetIDsRepository(call.op).tableName)
                                           [call.id]>>,
                              !.pc = "done"]]
    /\ UNCHANGED <<storeFrame, imageDB>>

\* The committed tables after a rollback that keeps what the transaction wrote.
RolledBackKeepsWrites(committed, work) == work

\* The committed tables after a rollback: as they were.
RolledBack(committed, work) == committed

\* The transaction of the caller ends: the call returned nil and it commits.
Commit(c) ==
    /\ txns[c].pc \in {"updated", "read"}
    /\ imageDB' = View(c)
    /\ txns' = [txns EXCEPT ![c] = [@ EXCEPT !.work = <<>>, !.pc = "done"]]
    /\ UNCHANGED storeFrame

\* The transaction of the caller ends: the call returned an error and it is
\* rolled back.
Rollback(c) ==
    /\ txns[c].pc = "failed"
    /\ imageDB' = RolledBack(imageDB, View(c))
    /\ txns' = [txns EXCEPT ![c] = [@ EXCEPT !.work = <<>>, !.pc = "done"]]
    /\ UNCHANGED storeFrame

(***************************************************************************)
(* Relations: caller 1 replaces the links of an image in one relation with *)
(* any list of at most MaxOperands ids (repeated ids included) and reads   *)
(* them back; caller 2 reads the links of an image in that relation at any *)
(* moment. Before, every image is linked to nothing, to one or to all.     *)
(***************************************************************************)
InitRelations ==
    /\ ImportIdle
    /\ QueryIdle
    /\ \E op \in ReplaceOps, i \in ImageIDs, j \in ImageIDs :
          LET r == ReplaceRepository(op)
          IN  \E links \in [ImageIDs -> {{}, {1}, RelatedIDs(r)}],
                 ids \in SeqsUpTo(RelatedIDs(r), MaxOperands) :
                 /\ imageDB = WithTable(EmptyDB, r.tableName, links)
                 /\ txns = [c \in Callers |->
                       IF c = 1
                       THEN [IdleTxn EXCEPT !.call = [op |-> op, id |-> i, ids |-> ids],
                                            !.pc = "replace"]
                       ELSE IF c = 2
                       THEN [IdleTxn EXCEPT !.call = [op |-> GetterOf(op), id |-> j,
                                                      ids |-> <<>>],
                                            !.pc = "get"]
                       ELSE IdleTxn]

NextRelations ==
    \E c \in Callers :
        \/ ReplaceDestroy(c)
        \/ ReplaceInsert(c)
        \/ GetIDs(c)
        \/ Commit(c)
        \/ Rollback(c)

SpecRelations == InitRelations /\ [][NextRelations]_vars

(***************************************************************************)
(* find: the images table holds a row for the ids that are present; qb.get *)
(* fails with sql.ErrNoRows on an id without a row, and with the error of  *)
(* the store when the store fails the statement.                           *)
(***************************************************************************)
ErrNoRows == "sql: no rows in result set"
NotFoundError(id) == <<"image with id %d not found", id>>

\* The image of a row of the tables db.
Row(db, id) == [ID |-> id, Path |-> db.paths[id], OCounter |-> db.oCounter[id]]

\* qb.get(id, &ret)
get(db, id) ==
    IF qfault.kind = "fetch" /\ qfault.id = id
    THEN [ret |-> <<>>, err |-> StoreError]
    ELSE IF ~db.present[id]
    THEN [ret |-> <<>>, err |-> ErrNoRows]
    ELSE [ret |-> <<Row(db, id)>>, err |-> "nil"]

\* A find that takes no error for the absence of a row.
IsNoRowsNever(err) == FALSE

\* err == sql.ErrNoRows
IsNoRows(err) == err = ErrNoRows

\* qb.find(id): the pointer to the image (<<>> is nil) and the error.
find(db, id) ==
    LET g == get(db, id)
    IN  IF g.err # "nil"
        THEN IF IsNoRows(g.err)
             THEN [image |-> <<>>, err |-> "nil"]
             ELSE [image |-> <<>>, err |-> g.err]
        ELSE [image |-> g.ret, err |-> "nil"]

\* The loop of FindMany over the ids left, with the images appended so far.
RECURSIVE FindManyFrom(_, _, _)
FindManyFrom(db, ids, images) ==
    IF ids = <<>> THEN [images |-> images, err |-> "nil"]
    ELSE LET f == find(db, Head(ids))
         IN  IF f.err # "nil" THEN [images |-> <<>>, err |-> f.err]
             ELSE IF f.image = <<>>
             THEN [images |-> <<>>, err |-> NotFoundError(Head(ids))]
             ELSE FindManyFrom(db, Tail(ids), Append(images, f.image[1]))

(***************************************************************************)
(* The o-counter of an image. A call is one UPDATE statement followed by   *)
(* find(id); the callers make at most MaxCalls calls together, a caller    *)
(* in one transaction or in several.                                       *)
(***************************************************************************)
CounterOps == {"IncrementOCounter", "DecrementOCounter", "ResetOCounter"}

\* A decrement that applies to every row of the id.
DecrementUnguarded(counter) == TRUE

\* DecrementOCounter: ... WHERE images.id = ? and images.o_counter > 0
DecrementGuard(counter) == counter > 0

\* The o_counter of the row after the UPDATE of the call.
CounterUpdate(op, counter) ==
    CASE op = "IncrementOCounter" -> counter + 1
      [] op = "DecrementOCounter" ->
            IF DecrementGuard(counter) THEN counter - 1 ELSE counter
      [] op = "ResetOCounter" -> 0

\* The number of calls the callers have made.
RECURSIVE CallsOf(_)
CallsOf(cs) ==
    IF cs = {} THEN 0
    ELSE LET c == CHOOSE d \in cs : TRUE
         IN  txns[c].calls + CallsOf(cs \ {c})
CallsMade == CallsOf(Callers)

\* A caller begins IncrementOCounter, DecrementOCounter or ResetOCounter on
\* its image.
NewCall(c) ==
    /\ txns[c].pc \in {"done", "read"}
    /\ CallsMade < MaxCalls
    /\ \E op \in CounterOps :
          txns' = [txns EXCEPT ![c] =
             [@ EXCEPT !.call = [op |-> op, id |-> txns[c].call.id, ids |-> <<>>],
                       !.pc = "exec",
                       !.calls = txns[c].calls + 1,
                       !.ret = <<>>,
                       !.err = "nil"]]
    /\ UNCHANGED <<storeFrame, imageDB>>

\* The call dereferences a nil image: it panics with a nil pointer dereference
\* instead of returning, and its transaction is rolled back.
NilDereference == "panic: nil pointer dereference"
Panicked(txn) == [txn EXCEPT !.pc = "failed", !.err = NilDereference]

\* qb.tx.Exec(`UPDATE images SET o_counter = ... WHERE images.id = ?`, id)
CounterExec(c) ==
    /\ txns[c].pc = "exec"
    /\ LET call == txns[c].call
       IN  \/ txns' = [txns EXCEPT ![c] =
                 Failed([@ EXCEPT !.before = <<View(c)>>, !.ret = <<0>>])]
           \/ /\ WriteLockFree(c)
              /\ txns' = [txns EXCEPT ![c] =
                    [@ EXCEPT !.before = <<View(c)>>,
                              !.work = <<IF View(c).present[call.id]
                                         THEN [View(c) EXCEPT !.oCounter[call.id] =
                                                 CounterUpdate(call.op, @)]
                                         ELSE View(c)>>,
                              !.pc = "find"]]
    /\ UNCHANGED <<storeFrame, imageDB>>

\* image, err := qb.find(id); return image.OCounter, nil
CounterFind(c) ==
    /\ txns[c].pc = "find"
    /\ LET f == find(View(c), txns[c].call.id)
       IN  \/ txns' = [txns EXCEPT ![c] = Failed([@ EXCEPT !.ret = <<0>>])]
           \/ /\ f.err = "nil"
              /\ txns' = [txns EXCEPT ![c] =
                    IF f.image = <<>>
                    THEN Panicked(@)
                    ELSE [@ EXCEPT !.ret = <<f.image[1].OCounter>>, !.pc = "read"]]
    /\ UNCHANGED <<storeFrame, imageDB>>

\* Every caller calls on the same image, whose counter is 0 or 1 before.
InitOCounter ==
    /\ ImportIdle
    /\ QueryIdle
    /\ \E i \in ImageIDs, counter \in {0, 1} :
          /\ imageDB = [EmptyDB EXCEPT !.oCounter[i] = counter]
          /\ txns = [c \in Callers |->
                [IdleTxn EXCEPT !.call = [op |-> "none", id |-> i, ids |-> <<>>]]]

NextOCounter ==
    \E c \in Callers :
        \/ NewCall(c)
        \/ CounterExec(c)
        \/ CounterFind(c)
        \/ Commit(c)
        \/ Rollback(c)

SpecOCounter == InitOCounter /\ [][NextOCounter]_vars

\* The callers call on one id, whose row is present or not, next to the rows
\* of the other images, each present or not, with a counter of 0 or 1.
InitOCounterRows ==
    /\ ImportIdle
    /\ QueryIdle
    /\ \E i \in ImageIDs, present \in [ImageIDs -> BOOLEAN],
          counters \in [ImageIDs -> {0, 1}] :
          /\ imageDB = [EmptyDB EXCEPT !.oCounter = counters, !.present = present]
          /\ txns = [c \in Callers |->
                [IdleTxn EXCEPT !.call = [op |-> "none", id |-> i, ids |-> <<>>]]]

SpecOCounterRows == InitOCounterRows /\ [][NextOCounter]_vars

(***************************************************************************)
(* Find and FindMany.                                                      *)
(***************************************************************************)
\* qb.Find(id)
Find(c) ==
    /\ txns[c].pc = "Find"
    /\ txns' = [txns EXCEPT ![c] =
          [@ EXCEPT !.ret = <<find(View(c), txns[c].call.id)>>, !.pc = "done"]]
    /\ UNCHANGED <<storeFrame, imageDB>>

\* qb.FindMany(ids)
FindMany(c) ==
    /\ txns[c].pc = "FindMany"
    /\ txns' = [txns EXCEPT ![c] =
          [@ EXCEPT !.ret = <<FindManyFrom(View(c), txns[c].call.ids, <<>>)>>,
                    !.pc = "done"]]
    /\ UNCHANGED <<storeFrame, imageDB>>

\* A caller calls Find with any id or FindMany with any list of at most
\* MaxOperands ids (repeated ids included) on tables where any of the rows is
\* absent; the store works or fails the fetch of one id.
InitFind ==
    /\ ImportIdle
    /\ download = NoDownload
    /\ imageFilter = <<>>
    /\ findFilter = <<>>
    /\ queryRet = <<>>
    /\ countRet = <<>>
    /\ executed = {}
    /\ qfault \in {NoFault} \cup {[kind |-> "fetch", id |-> i] : i \in ImageIDs}
    /\ \E present \in [ImageIDs -> BOOLEAN], paths \in [ImageIDs -> Paths] :
          imageDB = [EmptyDB EXCEPT !.present = present, !.paths = paths]
    /\ \E call \in {[op |-> "Find", id |-> i, ids |-> <<>>] : i \in ImageIDs}
                   \cup {[op |-> "FindMany", id |-> 0, ids |-> ids] :
                            ids \in SeqsUpTo(ImageIDs, MaxOperands)} :
          txns = [c \in Callers |->
                    IF c = 1 THEN [IdleTxn EXCEPT !.call = call, !.pc = call.op]
                    ELSE IdleTxn]

NextFind ==
    \E c \in Callers :
        \/ Find(c)
        \/ FindMany(c)

SpecFind == InitFind /\ [][NextFind]_vars

(***************************************************************************)
(* Query as its two phases, with a concurrent writer. The transaction of   *)
(* the caller reads the rows as they were committed when it first read     *)
(* (kept in `before`), whatever other transactions commit afterwards.      *)
(***************************************************************************)
\* A transaction that reads what is committed at the moment of each statement.
ReadViewCommitted(c) == imageDB

\* The tables a statement of the transaction of caller c reads.
ReadView(c) ==
    IF txns[c].work # <<>> THEN txns[c].work[1]
    ELSE IF txns[c].before # <<>> THEN txns[c].before[1]
    ELSE imageDB

\* Query: makeQuery and query.executeFind(), the first statements the
\* transaction reads with.
QuerySelect(c) ==
    /\ txns[c].pc = "Query"
    /\ LET m == makeQuery(imageFilter, findFilter)
       IN  IF m.err # "nil"
           THEN txns' = [txns EXCEPT ![c] =
                   [@ EXCEPT !.ret = <<QueryReturn(<<>>, 0, m.err)>>, !.pc = "done"]]
           ELSE \E o \in Orders(SelectedIDs(m.query[1]),
                                 m.query[1].sortAndPagination[1].sort) :
                  LET r == ExecuteFind(m.query[1], o)
                  IN  txns' = [txns EXCEPT ![c] =
                         [@ EXCEPT !.before = <<imageDB>>,
                                   !.call = [op |-> "Query", id |-> 0, ids |-> r.ids],
                                   !.k = 1,
                                   !.ret = <<QueryReturn(<<>>, r.count, "nil")>>,
                                   !.pc = IF r.ids = <<>> THEN "done" ELSE "fetch"]]
    /\ UNCHANGED <<storeFrame, imageDB>>

\* Query, one iteration of the loop over idsResult: image, err := qb.Find(id)
\* and images = append(images, image), nil or not.
QueryFetch(c) ==
    /\ txns[c].pc = "fetch"
    /\ LET ids == txns[c].call.ids
           k == txns[c].k
           f == find(ReadView(c), ids[k])
           sofar == txns[c].ret[1]
       IN  txns' = [txns EXCEPT ![c] =
              IF f.err # "nil"
              THEN [@ EXCEPT !.ret = <<QueryReturn(<<>>, 0, f.err)>>, !.pc = "done"]
              ELSE [@ EXCEPT !.ret = <<QueryReturn(Append(sofar.images, f.image),
                                                   sofar.count, "nil")>>,
                             !.k = k + 1,
                             !.pc = IF k = Len(ids) THEN "done" ELSE "fetch"]]
    /\ UNCHANGED <<storeFrame, imageDB>>

\* qb.Destroy(id) by a writer: the row of the image is deleted in the
\* writer's transaction.
Destroy(c) ==
    /\ txns[c].pc = "Destroy"
    /\ \/ txns' = [txns EXCEPT ![c] = Failed(@)]
       \/ /\ WriteLockFree(c)
          /\ txns' = [txns EXCEPT ![c] =
                [@ EXCEPT !.work = <<[View(c) EXCEPT !.present[txns[c].call.id] = FALSE]>>,
                          !.pc = "updated"]]
    /\ UNCHANGED <<storeFrame, imageDB>>

\* Caller 1 calls Query with a nil filter and a nil findFilter on tables
\* where any of the rows is present, while caller 2 destroys one image and
\* commits at any moment; the store works or fails the fetch of one id.
InitQueryPhases ==
    /\ ImportIdle
    /\ download = NoDownload
    /\ imageFilter = <<>>
    /\ findFilter = <<>>
    /\ queryRet = <<>>
    /\ countRet = <<>>
    /\ executed = {}
    /\ qfault \in {NoFault} \cup {[kind |-> "fetch", id |-> i] : i \in ImageIDs}
    /\ \E present \in [ImageIDs -> BOOLEAN], paths \in [ImageIDs -> Paths] :
          imageDB = [EmptyDB EXCEPT !.present = present, !.paths = paths]
    /\ \E i \in ImageIDs :
          txns = [c \in Callers |->
                    IF c = 1 THEN [IdleTxn EXCEPT !.pc = "Query"]
                    ELSE IF c = 2
                    THEN [IdleTxn EXCEPT !.call = [op |-> "Destroy", id |-> i, ids |-> <<>>],
                                         !.pc = "Destroy"]
                    ELSE IdleTxn]

NextQueryPhases ==
    \E c \in Callers :
        \/ QuerySelect(c)
        \/ QueryFetch(c)
        \/ Destroy(c)
        \/ Commit(c)
        \/ Rollback(c)

SpecQueryPhases == InitQueryPhases /\ [][NextQueryPhases]_vars

(***************************************************************************)
(* Properties of a whole run (specification Spec).                         *)
(***************************************************************************)
\* The step pc belongs to: the leftover phase is part of ImportStudios.
StepOf(p) == IF p = "studios_leftover" THEN "studios" ELSE p

\* Every manifest entry of type t has had its loop iteration.
AllAttempted(t) == \A i \in DOMAIN mappings[t] : <<t, mappings[t][i]>> \in attempted

\* The order in which the import steps have to run.
RequiredOrder == <<"tags", "performers", "studios", "movies", "galleries", "scraped", "scenes", "images", "done">>
PositionOf(p) == CHOOSE j \in DOMAIN RequiredOrder : RequiredOrder[j] = p

\* The types whose instances a record of type t names.
References(t) ==
    CASE t = "performers" -> {"tags"}
      [] t = "movies" -> {"studios"}
      [] t = "galleries" -> {"tags", "performers", "studios"}
      [] t = "scenes" -> {"tags", "performers", "studios", "movies", "galleries"}
      [] t = "images" -> {"tags", "performers", "studios", "galleries"}
      [] OTHER -> {}

\* A step is left only when it is finished.
StepFinished(p) ==
    CASE p \in SimpleTypes -> AllAttempted(p)
      [] p = "studios_leftover" -> AllAttempted("studios") /\ rangeTodo = {} /\ rangeCur = <<>>
      [] p = "scraped" -> TRUE
      [] OTHER -> FALSE

C1_StepChange ==
    StepOf(pc') # StepOf(pc) =>
        IF pc = "start"
        THEN pc' \in {RequiredOrder[1], "done"}
        ELSE /\ PositionOf(StepOf(pc')) = PositionOf(StepOf(pc)) + 1
             /\ StepFinished(pc)

C1_ReferencedFirst ==
    \A e \in attempted : \A u \in References(e[1]) :
        /\ AllAttempted(u)
        /\ PositionOf(StepOf(pc)) > PositionOf(u)

IterationCommitted(t, name) ==
    /\ lastTxn'.type = t
    /\ lastTxn'.name = name
    /\ lastTxn'.committed

C3_Iteration ==
    \A t \in SimpleTypes :
        (pc = t /\ idx <= Len(mappings[t]) /\ vars' # vars) =>
            LET name == mappings[t][idx]
            IN  /\ <<t, name>> \in attempted'
                /\ ~IterationCommitted(t, name) =>
                      \E e \in errlog' \ errlog : e.type = t /\ e.name = name
                /\ pc' = t
                /\ idx' = idx + 1

C3_CommittedStays ==
    pc # "start" =>
        \A t \in SimpleTypes : \A n \in EntryNames :
            store[t][n] # "none" => store'[t][n] # "none"

C3_RunGoesOn ==
    (pc = "done" /\ startFault = "none") => \A t \in ManifestTypes : AllAttempted(t)

\* C3: for tags, performers, movies, galleries, scenes and images, when the import
\* of a manifest entry fails (unreadable record, or its transaction returns an
\* error) the failure is logged, the next entry of the type is up next, rows
\* committed earlier stay, and the run reaches the end with every entry attempted.
C3_FailureIsolated ==
    [][C3_Iteration /\ C3_CommittedStays]_vars /\ []C3_RunGoesOn

\* C3 witness: the run is done, the first entry of a type failed and was logged,
\* and the entry after it was imported.
C3_Witness ==
    /\ pc = "done"
    /\ \E t \in SimpleTypes :
          /\ \E e \in errlog : e.type = t /\ e.name = 1
          /\ store[t][1] = "none"
          /\ store[t][2] = "new"

(***************************************************************************)
(* Properties of ImportStudios (specification SpecStudios).                *)
(***************************************************************************)
\* The studios of the manifest.
Manifest == Range(mappings["studios"])

\* The range of the leftover phase is over; ImportStudios is about to return.
LeftoverOver == pc = "studios_leftover" /\ rangeTodo = {} /\ rangeCur = <<>>

\* ImportStudios has returned.
StudiosReturned == pc = NextStep("studios")

\* Studio a can be created when its own entry is reached: it names no parent, or
\* a parent that is listed before it and can itself be created at its own entry.
RECURSIVE CreatableAtEntry(_)
CreatableAtEntry(a) ==
    \/ studioJSON[a] = NoParent
    \/ /\ studioJSON[a] \in Manifest
       /\ studioJSON[a] < a
       /\ CreatableAtEntry(studioJSON[a])

\* Studio b is listed before studio a and names a as its parent, and a is not
\* itself waiting for a parent that comes later (or never).
ChildBeforeParent(b, a) ==
    /\ b \in Manifest
    /\ a \in Manifest
    /\ b < a
    /\ studioJSON[b] = a
    /\ CreatableAtEntry(a)

RECURSIVE AncestorAt(_, _)
AncestorAt(s, k) ==
    IF k = 0 THEN s
    ELSE LET a == AncestorAt(s, k - 1)
         IN  IF a \in Manifest THEN studioJSON[a] ELSE NoParent

\* The manifest is one chain S1 <- S2 <- ... <- Sn, n >= 2, in any order: one root,
\* every other studio names a studio of the manifest, no studio is named twice,
\* and every studio reaches the root.
IsChain ==
    /\ Cardinality(Manifest) >= 2
    /\ Cardinality({s \in Manifest : studioJSON[s] = NoParent}) = 1
    /\ \A s \in Manifest : studioJSON[s] \in Manifest \cup {NoParent}
    /\ \A s \in Manifest : \A u \in Manifest :
          (s # u /\ studioJSON[s] # NoParent) => studioJSON[s] # studioJSON[u]
    /\ \A s \in Manifest : AncestorAt(s, Cardinality(Manifest)) = NoParent

\* C5 as stated: after ImportStudios, every studio of a parent/child chain is
\* persisted with the parent it names, whatever the order of the manifest and
\* whatever the policies.
C5_DeepChains ==
    (StudiosReturned /\ IsChain) => \A s \in Manifest : studioRows[s] = studioJSON[s]

\* C6 as stated: when the drain that follows a creation is over (between the
\* iterations of the first pass, and when the first pass ends), no key of the
\* pending map is the name of a studio that was created.
C6_NoCreatedKeyPending ==
    (pc = "studios" \/ (pc = "studios_leftover" /\ rangeTodo = DOMAIN pendingParent)) =>
        \A k \in DOMAIN pendingParent : studioRows[k] = Absent

\* C7 as stated: at the end of ImportStudios every studio left in the pending map
\* by the first pass is persisted, under every MissingRefBehaviour.
C7_LeftoversCreated ==
    LeftoverOver =>
        \A k \in DOMAIN pendingParent : \A i \in DOMAIN pendingParent[k] :
            studioRows[pendingParent[k][i]] # Absent

\* C8: an iteration of the first pass on a studio (its record read) whose named
\* parent is not in the store leaves the store as it was (nothing is created, no placeholder
\* either), appends the studio to the pending map under the parent's name, and
\* logs no error, whatever MissingRefBehaviour is configured.
C8_Iteration ==
    (pc = "studios" /\ idx <= Len(mappings["studios"]) /\ vars' # vars) =>
        LET name == mappings["studios"][idx]
            parent == studioJSON[name]
        IN  (~Fails("studios", name, "read") /\ parent # NoParent /\ studioRows[parent] = Absent) =>
                /\ studioRows' = studioRows
                /\ ~lastTxn'.committed
                /\ lastTxn'.name = name
                /\ parent \in DOMAIN pendingParent'
                /\ pendingParent'[parent] =
                      (IF parent \in DOMAIN pendingParent THEN pendingParent[parent] ELSE <<>>)
                      \o <<name>>
                /\ \A k \in DOMAIN pendingParent' \ {parent} :
                      k \in DOMAIN pendingParent /\ pendingParent'[k] = pendingParent[k]
                /\ errlog' = errlog

C8_DeferredNotCreated == [][C8_Iteration]_vars

\* C8 witness: under the Create policy the first pass has deferred a studio: it is
\* in the pending map under the name of a parent that is not in the store, and
\* neither of them is persisted.
C8_Witness ==
    /\ pc = "studios"
    /\ MissingRefBehaviour = "CREATE"
    /\ \E k \in DOMAIN pendingParent :
          /\ studioRows[k] = Absent
          /\ studioRows[pendingParent[k][1]] = Absent
          /\ errlog = {}

\* C9 as stated: the parent-does-not-exist error never reaches the error log.
C9_ParentNotExistNeverLogged ==
    \A e \in errlog : e.err # ErrParentStudioNotExist

\* Studio s is on a cycle of parent references (a studio naming itself included).
OnCycle(s) ==
    /\ s \in Manifest
    /\ \E k \in 1..Cardinality(Manifest) : AncestorAt(s, k) = s

\* C10 as stated: once ImportStudios has returned, every studio on a cycle of
\* parent references is persisted.
C10_CycleCreated ==
    StudiosReturned => \A s \in Manifest : OnCycle(s) => studioRows[s] # Absent

(***************************************************************************)
(* Properties of ImportScenes (specifications SpecScenes and Spec).        *)
(***************************************************************************)
\* The markers of scene `name` whose import has been tried.
MarkersTried(att, name) ==
    {j \in DOMAIN sceneJSON[name].markers : <<"markers", <<name, j>>>> \in att}

\* The logger was told that a marker of scene `name` failed.
MarkerFailureLogged(log, name) == LogEntry("error", "scenes", name, "marker") \in log

\* C11 as stated: a marker import failure leaves the parent scene persisted and
\* every marker of the scene is still attempted.
C11_MarkerFailureIsolated ==
    \A name \in EntryNames :
        MarkerFailureLogged(errlog, name) =>
            /\ store["scenes"][name] # "none"
            /\ MarkersTried(attempted, name) = DOMAIN sceneJSON[name].markers

C11_Iteration ==
    (pc = "scenes" /\ idx <= Len(mappings["scenes"]) /\ vars' # vars) =>
        LET name == mappings["scenes"][idx]
        IN  /\ MarkerFailureLogged(errlog' \ errlog, name) =>
                  /\ ~lastTxn'.committed
                  /\ store' = store
                  /\ sceneTags' = sceneTags
                  /\ markerRows' = markerRows
                  /\ rowCount' = rowCount
                  /\ \E k \in DOMAIN sceneJSON[name].markers :
                        MarkersTried(attempted', name) = 1..k
            /\ IterationCommitted("scenes", name) =>
                  /\ store'["scenes"][name] # "none"
                  /\ DOMAIN sceneJSON[name].markers \subseteq markerRows'[name]
                  /\ MarkersTried(attempted', name) = DOMAIN sceneJSON[name].markers

\* C11 amended: the markers of a scene are imported in the scene's own
\* transaction, after the scene row is written. The transaction commits only
\* with every marker of the scene stored; a marker that fails ends the loop
\* (the markers after it are not tried), is logged as the failure of the
\* scene, and rolls the whole transaction back: the scene row, its tag links
\* and the markers written before it are as they were before the iteration.
C11_MarkersInSceneTxn == [][C11_Iteration]_vars

\* C11 witness: the first of a new scene's markers failed; the scene is not
\* stored and its second marker was never tried.
C11_Witness ==
    \E name \in EntryNames :
        /\ MarkerFailureLogged(errlog, name)
        /\ Len(sceneJSON[name].markers) >= 2
        /\ store["scenes"][name] = "none"
        /\ MarkersTried(attempted, name) = {1}

(***************************************************************************)
(* Properties of the import policies.                                      *)
(***************************************************************************)
\* Every tag the record of entry `name` of type t names is stored (the records
\* of the types other than scenes name none).
ReferencesStored(t, name) ==
    t = "scenes" =>
        \A g \in sceneJSON[name].tags \cup Range(sceneJSON[name].markers) :
            store["tags"][g] # "none"

C12_Iteration ==
    \A t \in SimpleTypes :
        (/\ pc = t
         /\ idx <= Len(mappings[t])
         /\ vars' # vars
         /\ store[t][mappings[t][idx]] # "none"
         /\ ReferencesStored(t, mappings[t][idx])
         /\ ~Fails(t, mappings[t][idx], "read")
         /\ ~Fails(t, mappings[t][idx], "commit")) =>
            LET name == mappings[t][idx]
            IN  /\ DuplicateBehaviour = "FAIL" =>
                      /\ LogEntry("error", t, name, "duplicate") \in errlog' \ errlog
                      /\ store'[t][name] = store[t][name]
                /\ DuplicateBehaviour = "IGNORE" =>
                      /\ errlog' = errlog
                      /\ store'[t][name] = store[t][name]
                /\ DuplicateBehaviour = "OVERWRITE" =>
                      /\ errlog' = errlog
                      /\ store'[t][name] = "new"
                /\ rowCount'[t][name] = 1

\* C12: when the incoming record's checksum matches a stored row, Fail logs a
\* conflict error for that instance and leaves the row as it was, Ignore (skip)
\* leaves the row as it was and logs nothing, Overwrite replaces the row by
\* the incoming record and logs nothing; in each case one row with that
\* checksum is stored afterwards.
C12_DuplicatePolicy == [][C12_Iteration]_vars

\* C12 witness: under Fail, the import of an entry whose row was stored before
\* the run was refused as a duplicate, and the one old row is still there.
C12_Witness ==
    \E t \in SimpleTypes, name \in EntryNames :
        /\ DuplicateBehaviour = "FAIL"
        /\ LogEntry("error", t, name, "duplicate") \in errlog
        /\ store[t][name] = "old"
        /\ rowCount[t][name] = 1

\* The tags the record of scene `name` names that are not stored.
MissingTags(name) == {g \in sceneJSON[name].tags : store["tags"][g] = "none"}

C13_Iteration ==
    (/\ pc = "scenes"
     /\ idx <= Len(mappings["scenes"])
     /\ vars' # vars
     /\ MissingRefBehaviour = "FAIL"
     /\ ~Fails("scenes", mappings["scenes"][idx], "read")
     /\ MissingTags(mappings["scenes"][idx]) # {}) =>
        LET name == mappings["scenes"][idx]
        IN  /\ LogEntry("error", "scenes", name, "missing reference") \in errlog' \ errlog
            /\ lastTxn'.type = "scenes" /\ lastTxn'.name = name /\ ~lastTxn'.committed
            /\ store' = store
            /\ sceneTags' = sceneTags
            /\ markerRows' = markerRows
            /\ rowCount' = rowCount
            /\ MarkersTried(attempted', name) = {}

\* C13: under the missing-reference policy Fail, the import of a scene that
\* names a tag that is not stored logs an error for that scene and its
\* transaction is rolled back: no scene row, no scene-tag link and no marker
\* is written (none of its markers is even tried).
C13_MissingRefFail == [][C13_Iteration]_vars

\* C13 witness: under Fail a scene with markers named a missing tag, the error
\* was logged, and nothing of the scene is stored.
C13_Witness ==
    \E name \in EntryNames :
        /\ MissingRefBehaviour = "FAIL"
        /\ LogEntry("error", "scenes", name, "missing reference") \in errlog
        /\ sceneJSON[name].markers # <<>>
        /\ store["scenes"][name] = "none"
        /\ sceneTags[name] = {}
        /\ markerRows[name] = {}

C14_Iteration ==
    (/\ pc = "scenes"
     /\ idx <= Len(mappings["scenes"])
     /\ vars' # vars
     /\ MissingRefBehaviour = "IGNORE"
     /\ ~Fails("scenes", mappings["scenes"][idx], "read")
     /\ ~Fails("scenes", mappings["scenes"][idx], "commit")
     /\ store["scenes"][mappings["scenes"][idx]] = "none"
     /\ \A g \in Range(sceneJSON[mappings["scenes"][idx]].markers) : store["tags"][g] # "none"
     /\ MissingTags(mappings["scenes"][idx]) # {}) =>
        LET name == mappings["scenes"][idx]
        IN  /\ errlog' = errlog
            /\ IterationCommitted("scenes", name)
            /\ store'["scenes"][name] = "new"
            /\ sceneTags'[name] = sceneJSON[name].tags \ MissingTags(name)
            /\ store'["tags"] = store["tags"]
            /\ rowCount'["tags"] = rowCount["tags"]

\* C14: under the missing-reference policy Ignore, the import of a new scene
\* that names a tag that is not stored commits without an error being logged;
\* the scene is stored, linked to exactly the tags it names that are stored,
\* and no tag row is created.
C14_MissingRefIgnore == [][C14_Iteration]_vars

\* C14 witness: under Ignore a scene that named a stored and a missing tag is
\* stored with the stored tag only, and the missing tag is still missing.
C14_Witness ==
    \E name \in EntryNames :
        /\ MissingRefBehaviour = "IGNORE"
        /\ lastTxn = [type |-> "scenes", name |-> name, written |-> {<<"scenes", name>>},
                      committed |-> TRUE]
        /\ store["scenes"][name] = "new"
        /\ sceneTags[name] # {}
        /\ sceneTags[name] = sceneJSON[name].tags \ MissingTags(name)
        /\ MissingTags(name) # {}

(***************************************************************************)
(* Properties of Start.                                                    *)
(***************************************************************************)
\* The archive cannot be unpacked or the mappings are missing.
FatalStart == startFault \in {"unzip", "mappings"}

C15_StartStep ==
    (pc = "start" /\ FatalStart /\ vars' # vars) =>
        /\ pc' = "done"
        /\ \E e \in errlog' \ errlog : e.type = "start" /\ e.err = startFault
        /\ UNCHANGED <<store, studioRows, scrapedRows, sceneTags, markerRows, rowCount,
                       attempted, lastTxn>>

C15_NoStepRan ==
    FatalStart =>
        /\ pc \in {"start", "done"}
        /\ attempted = {}
        /\ lastTxn = NoTxn

\* C15: when the archive cannot be unpacked or the mappings are missing, Start
\* logs the failure and returns: no Import step runs (no entry is attempted,
\* no transaction is opened), the database is not reset even when Reset is
\* set, and every table is as it was before the run.
C15_FatalStartWritesNothing == [][C15_StartStep]_vars /\ []C15_NoStepRan

\* C15 witness: a run with Reset set and a row in the store found no
\* mappings; it is over and the row is still stored.
C15_Witness ==
    /\ pc = "done"
    /\ startFault = "mappings"
    /\ Reset
    /\ \E t \in SimpleTypes, n \in EntryNames : store[t][n] = "old"

(***************************************************************************)
(* Properties of the image query builder.                                  *)
(***************************************************************************)
SubFilterFields == {"And", "Or", "Not"}

\* Some node of the tree, at any depth under any of its sub-filters, has more
\* than one of And, Or, Not populated.
RECURSIVE HasIllegalNode(_)
HasIllegalNode(f) ==
    \/ Cardinality({k \in SubFilterFields : f[k] # <<>>}) > 1
    \/ \E k \in SubFilterFields : f[k] # <<>> /\ HasIllegalNode(f[k][1])

\* C16: for every filter tree with a node, at any depth, that has more than
\* one of And, Or, Not populated, validateFilter returns the illegal filter
\* combination error, makeQuery returns that error and no query, and so do
\* Query and QueryCount.
C16_IllegalCombinationRejected ==
    (imageFilter # <<>> /\ HasIllegalNode(imageFilter[1])) =>
        /\ validateFilter(imageFilter[1]) = illegalFilterCombination("", "")
        /\ makeQuery(imageFilter, findFilter) =
              [err |-> illegalFilterCombination("", ""), query |-> <<>>]
        /\ queryRet # <<>> => queryRet[1].err = illegalFilterCombination("", "")
        /\ countRet # <<>> => countRet[1].err = illegalFilterCombination("", "")

\* C16 witness: Query refused a filter whose root is legal (one sub-filter)
\* and whose illegal node lies deeper.
C16_Witness ==
    /\ imageFilter # <<>>
    /\ Cardinality({k \in SubFilterFields : imageFilter[1][k] # <<>>}) = 1
    /\ HasIllegalNode(imageFilter[1])
    /\ queryRet # <<>>
    /\ queryRet[1].err = illegalFilterCombination("", "")

\* The calls have returned, without error.
QueryOK == queryRet # <<>> /\ queryRet[1].err = "nil"
QueryCountOK == countRet # <<>> /\ countRet[1].err = "nil"

\* Query ran the statement that fetches the image qfault names.
FetchFailed == qfault.kind = "fetch" /\ Statement("Query", "find", qfault.id) \in executed

\* C17: a call that fails returns no partial result: Query returns
\* (nil, 0, err) and QueryCount returns (0, err) when makeQuery fails, when
\* the store fails the ids or the count statement, and (Query) when the fetch
\* of an id fails; when the filter is illegal, no statement is run at all.
C17_ErrorAbortsCall ==
    LET m == makeQuery(imageFilter, findFilter)
        failed == m.err # "nil" \/ qfault.kind \in {"ids", "count"} \/ FetchFailed
    IN  /\ queryRet # <<>> =>
              /\ failed <=> queryRet[1].err # "nil"
              /\ queryRet[1].err # "nil" => queryRet[1].images = <<>> /\ queryRet[1].count = 0
              /\ m.err # "nil" => queryRet[1].err = m.err
        /\ countRet # <<>> =>
              /\ (m.err # "nil" \/ qfault.kind = "count") <=> countRet[1].err # "nil"
              /\ countRet[1].err # "nil" => countRet[1].count = 0
              /\ m.err # "nil" => countRet[1].err = m.err
        /\ (imageFilter # <<>> /\ HasIllegalNode(imageFilter[1])) =>
              /\ m.err = illegalFilterCombination("", "")
              /\ executed = {}

\* C17 witness: the fetch of the second id of a page failed, after the first
\* image was fetched, and Query returned nil, 0 and the error.
C17_Witness ==
    /\ queryRet = <<[images |-> <<>>, count |-> 0, err |-> StoreError]>>
    /\ FetchFailed
    /\ \E i \in ImageIDs : i # qfault.id /\ Statement("Query", "find", i) \in executed

\* C18 as stated: the number of entities Query returns equals the value
\* QueryCount returns for the same filter.
C18_FindSizeIsCount ==
    (QueryOK /\ QueryCountOK) => Len(queryRet[1].images) = countRet[1].count

\* The number of rows LIMIT and OFFSET leave of n rows.
PageSize(n, page) ==
    IF n <= page.offset THEN 0
    ELSE IF n - page.offset < page.limit THEN n - page.offset ELSE page.limit

\* C18 amended: the find and the count built from the same filter select the
\* same entities: the value QueryCount returns is the number of entities the
\* find selects before pagination, for any size including zero; the entities
\* Query returns are the page of them that findFilter asks for (distinct
\* selected entities, as many as LIMIT and OFFSET leave), so their number
\* equals the count exactly when the page does not cut the selection.
C18_FindPageOfCounted ==
    (QueryOK /\ QueryCountOK) =>
        LET q == makeQuery(imageFilter, findFilter).query[1]
            images == queryRet[1].images
        IN  /\ countRet[1].count = Cardinality(SelectedIDs(q))
            /\ Range(images) \subseteq SelectedIDs(q)
            /\ Cardinality(Range(images)) = Len(images)
            /\ Len(images) = PageSize(countRet[1].count, q.sortAndPagination[1].page)

\* C18 witness: QueryCount counted two images and Query, asked for pages of
\* one, returned one of them.
C18_Witness ==
    /\ QueryOK
    /\ QueryCountOK
    /\ countRet[1].count = 2
    /\ Len(queryRet[1].images) = 1

\* The findFilter that searches for the same term and asks for nothing else.
SearchOnly(ff) == IF ff = <<>> THEN <<>> ELSE <<[EmptyFindFilter EXCEPT !.Q = ff[1].Q]>>

\* C19: the total count Query returns is the value QueryCount returns for the
\* same arguments, and it is the count of the filter and search term alone:
\* whatever page, per_page (0 included), sort and direction findFilter asks for.
C19_TotalCountIgnoresPage ==
    QueryOK =>
        /\ QueryCountOK => queryRet[1].count = countRet[1].count
        /\ queryRet[1].count =
              ExecuteCount(makeQuery(imageFilter, SearchOnly(findFilter)).query[1])

\* C19 witness: asked for pages of no image, Query returned no image and a
\* total count of two, as QueryCount did.
C19_Witness ==
    /\ QueryOK
    /\ QueryCountOK
    /\ findFilter # <<>>
    /\ findFilter[1].PerPage = <<0>>
    /\ queryRet[1].images = <<>>
    /\ queryRet[1].count = 2
    /\ countRet[1].count = 2

\* The tags an image is linked to through its performers.
PerformerTagsOf(i) == UNION {imageDB.performersTags[q] : q \in imageDB.performersImages[i]}

\* The performer-tags criterion of the filter, when the filter is that criterion.
CriterionOf(f) == f[1].PerformerTags[1]

\* C20: for every non-empty operand list, whose set of ids is S, a query by
\* the performer-tags criterion with modifier IncludesAll returns exactly the
\* images whose set of performer tags is a superset of S.
C20_IncludesAllSuperset ==
    (/\ QueryOK
     /\ imageFilter # <<>>
     /\ imageFilter[1].PerformerTags # <<>>
     /\ CriterionOf(imageFilter).Modifier = "INCLUDES_ALL"
     /\ CriterionOf(imageFilter).Value # <<>>) =>
        Range(queryRet[1].images) =
            {i \in ImageIDs : Range(CriterionOf(imageFilter).Value) \subseteq PerformerTagsOf(i)}

\* The multi-value criterion of a filter with one, and the set each image is
\* linked to by the relation of that criterion.
MultiCriterionOf(f) ==
    IF f[1].PerformerTags # <<>> THEN f[1].PerformerTags[1] ELSE f[1].Performers[1]
LinkedSet(f, i) ==
    IF f[1].PerformerTags # <<>> THEN PerformerTagsOf(i) ELSE imageDB.performersImages[i]
HasMultiCriterion(f) ==
    f # <<>> /\ (f[1].PerformerTags # <<>> \/ f[1].Performers # <<>>)

\* C21: for every non-empty operand list, whose set of ids is S, a query by a
\* multi-value criterion (performer tags, performers) with modifier Excludes
\* returns exactly the images whose linked set is disjoint from S: those with
\* no linked row and those with other linked rows included.
C21_ExcludesDisjoint ==
    (/\ QueryOK
     /\ HasMultiCriterion(imageFilter)
     /\ MultiCriterionOf(imageFilter).Modifier = "EXCLUDES"
     /\ MultiCriterionOf(imageFilter).Value # <<>>) =>
        Range(queryRet[1].images) =
            {i \in ImageIDs :
                LinkedSet(imageFilter, i) \cap Range(MultiCriterionOf(imageFilter).Value) = {}}

\* C21 witness: a query that excludes one performer tag returned an image
\* with no performer and left out an image with that tag among others.
C21_Witness ==
    /\ QueryOK
    /\ imageFilter # <<>>
    /\ imageFilter[1].PerformerTags # <<>>
    /\ CriterionOf(imageFilter).Modifier = "EXCLUDES"
    /\ Len(CriterionOf(imageFilter).Value) = 1
    /\ \E i \in Range(queryRet[1].images) : imageDB.performersImages[i] = {}
    /\ \E i \in ImageIDs :
          /\ i \notin Range(queryRet[1].images)
          /\ Cardinality(PerformerTagsOf(i)) > 1

\* C21 witness of the unrelated rows: the returned image has a performer tag,
\* none of them excluded.
C21_WitnessUnrelated ==
    /\ QueryOK
    /\ imageFilter # <<>>
    /\ imageFilter[1].PerformerTags # <<>>
    /\ CriterionOf(imageFilter).Modifier = "EXCLUDES"
    /\ CriterionOf(imageFilter).Value # <<>>
    /\ \E i \in Range(queryRet[1].images) : PerformerTagsOf(i) # {}

\* The terms of a list of clauses that are not combinations, in clause order.
RECURSIVE LeafTerms(_)
LeafTerms(terms) ==
    IF terms = <<>> THEN <<>>
    ELSE (IF Head(terms).op \in {"and", "or", "not"}
          THEN LeafTerms(Head(terms).terms) ELSE <<Head(terms)>>) \o LeafTerms(Tail(terms))

\* The terms built from the operand list of a multi-value criterion.
OperandListOps == {"in", "not_in", "id_not_in_link", "not_exists_tag_in"}

\* C22: for a multi-value criterion with modifier Includes, IncludesAll or
\* Excludes the compiled query has no predicate built from an empty operand
\* list: no IN list of no placeholder and no HAVING count of zero; a criterion
\* whose operand list is empty adds no clause and no join, and the query then
\* returns every image.
C22_NoEmptyOperandList ==
    LET m == makeQuery(imageFilter, findFilter)
    IN  (HasMultiCriterion(imageFilter) /\ m.err = "nil") =>
            LET q == m.query[1]
            IN  /\ \A t \in Range(LeafTerms(q.whereClauses \o q.havingClauses)) :
                      /\ t.op \in OperandListOps => t.n > 0
                      /\ t.op = "count_distinct_is" => t.value > 0
                /\ MultiCriterionOf(imageFilter).Value = <<>> =>
                      /\ q.whereClauses = <<>>
                      /\ q.havingClauses = <<>>
                      /\ q.joins = <<>>
                      /\ q.args = <<>>
                      /\ QueryOK => Range(queryRet[1].images) = ImageIDs

\* C22 witness: a query by a criterion with modifier Includes and no operand
\* ran and returned every image.
C22_Witness ==
    /\ QueryOK
    /\ HasMultiCriterion(imageFilter)
    /\ MultiCriterionOf(imageFilter).Modifier = "INCLUDES"
    /\ MultiCriterionOf(imageFilter).Value = <<>>
    /\ Range(queryRet[1].images) = ImageIDs

\* The images missing the field `name`: no linked row, no studio, or a text
\* column that is NULL, empty or made of blanks.
Missing(name) ==
    CASE name = "studio" -> {i \in ImageIDs : imageDB.studioID[i] = NULL}
      [] name = "performers" -> {i \in ImageIDs : imageDB.performersImages[i] = {}}
      [] name = "galleries" -> {i \in ImageIDs : imageDB.galleriesImages[i] = {}}
      [] name = "tags" -> {i \in ImageIDs : imageDB.imagesTags[i] = {}}
      [] OTHER -> {i \in ImageIDs : imageDB.titles[i] \in {<<>>, <<"">>, <<" ">>}}

\* C23: a query by is_missing alone returns exactly the images missing that
\* field, and as many are counted; an absent or empty is_missing adds no
\* clause and no join, and the query returns every image.
C23_IsMissingExact ==
    (imageFilter # <<>> /\ imageFilter[1] = IsMissingFilter(imageFilter[1].IsMissing)) =>
        LET isMissing == imageFilter[1].IsMissing
            q == makeQuery(imageFilter, findFilter).query[1]
            expected == IF isMissing = <<>> \/ isMissing = <<"">>
                        THEN ImageIDs ELSE Missing(isMissing[1])
        IN  /\ QueryOK => Range(queryRet[1].images) = expected
            /\ QueryCountOK => countRet[1].count = Cardinality(expected)
            /\ (isMissing = <<>> \/ isMissing = <<"">>) =>
                  q.whereClauses = <<>> /\ q.joins = <<>>

\* C23 witness: a query by is_missing = title returned an image whose title
\* is blank and left out an image whose title has a letter between blanks.
C23_Witness ==
    /\ QueryOK
    /\ imageFilter = <<IsMissingFilter(<<"title">>)>>
    /\ \E i \in Range(queryRet[1].images) : imageDB.titles[i] = <<" ">>
    /\ \E i \in ImageIDs \ Range(queryRet[1].images) : imageDB.titles[i] = <<" a ">>

\* The images whose number of rows in `links` satisfies the criterion.
SatisfyingCount(links, criterion) ==
    {i \in ImageIDs :
        LET count == Cardinality(links[i])
        IN  CASE criterion.Modifier = "EQUALS" -> count = criterion.Value
              [] criterion.Modifier = "NOT_EQUALS" -> count # criterion.Value
              [] criterion.Modifier = "GREATER_THAN" -> count > criterion.Value
              [] criterion.Modifier = "LESS_THAN" -> count < criterion.Value}

\* C24: a query by a count criterion (tag count, performer count) with
\* modifier Equals, NotEquals, GreaterThan or LessThan and value n returns
\* exactly the images whose number of linked rows satisfies the modifier
\* against n, images with no linked row included when zero satisfies it.
C24_CountCriterion ==
    (QueryOK /\ imageFilter # <<>>) =>
        /\ imageFilter[1] = [EmptyFilter EXCEPT !.TagCount = imageFilter[1].TagCount]
           /\ imageFilter[1].TagCount # <<>> =>
              Range(queryRet[1].images) =
                  SatisfyingCount(imageDB.imagesTags, imageFilter[1].TagCount[1])
        /\ imageFilter[1] = [EmptyFilter EXCEPT !.PerformerCount = imageFilter[1].PerformerCount]
           /\ imageFilter[1].PerformerCount # <<>> =>
              Range(queryRet[1].images) =
                  SatisfyingCount(imageDB.performersImages, imageFilter[1].PerformerCount[1])

\* C24 witness: a query for the images with fewer than one performer
\* returned an image with tags and no performer and left out an image with a
\* performer and no tag.
C24_Witness ==
    /\ QueryOK
    /\ imageFilter =
          <<[EmptyFilter EXCEPT !.PerformerCount = <<[Value |-> 1, Modifier |-> "LESS_THAN"]>>]>>
    /\ \E i \in Range(queryRet[1].images) :
          imageDB.performersImages[i] = {} /\ imageDB.imagesTags[i] # {}
    /\ \E i \in ImageIDs \ Range(queryRet[1].images) :
          imageDB.performersImages[i] # {} /\ imageDB.imagesTags[i] = {}

\* The node without its sub-filters: its own criteria.
OwnOf(f) == [f EXCEPT !.And = <<>>, !.Or = <<>>, !.Not = <<>>]

\* result(C): the images a query by the own criteria of the node returns.
OwnResult(f) == SelectedIDs(makeQuery(<<OwnOf(f)>>, <<>>).query[1])

\* The result of a valid filter by set semantics.
RECURSIVE SetResult(_)
SetResult(f) ==
    CASE f.And # <<>> -> OwnResult(f) \cap SetResult(f.And[1])
      [] f.Or # <<>> -> OwnResult(f) \cup SetResult(f.Or[1])
      [] f.Not # <<>> -> OwnResult(f) \ SetResult(f.Not[1])
      [] OTHER -> OwnResult(f)

\* C25: the result of a query by a valid filter is, at every depth, the
\* result of the node's own criteria intersected with the result of its And
\* sub-filter, united with that of its Or sub-filter, or minus that of its
\* Not sub-filter; a node without sub-filter returns the conjunction of its
\* own criteria.
C25_SetSemantics ==
    (QueryOK /\ imageFilter # <<>>) => Range(queryRet[1].images) = SetResult(imageFilter[1])

\* The sub-filter of a valid node, as a pointer.
SubFilterOf(f) ==
    IF f.And # <<>> THEN f.And ELSE IF f.Or # <<>> THEN f.Or ELSE f.Not

\* The join aliases the criteria of a filter tree ask for.
RECURSIVE RequestedAliases(_)
RequestedAliases(f) ==
    (IF f.IsMissing = <<"performers">> THEN {"performers_join"} ELSE {})
    \cup (IF f.Performers # <<>> /\ f.Performers[1].Value # <<>>
             /\ f.Performers[1].Modifier # "EXCLUDES"
          THEN {"performers_join"} ELSE {})
    \cup (IF f.PerformerTags # <<>> /\ f.PerformerTags[1].Value # <<>>
          THEN {"performers_join", "performer_tags_join"} ELSE {})
    \cup (IF SubFilterOf(f) # <<>> THEN RequestedAliases(SubFilterOf(f)[1]) ELSE {})

\* How often a list of joins holds the alias.
TimesJoined(joins, as) == Cardinality({k \in DOMAIN joins : joins[k].as = as})

\* The filterBuilders of a tree of them.
RECURSIVE FilterBuilders(_)
FilterBuilders(fb) ==
    {fb} \cup (IF fb.subFilter = <<>> THEN {} ELSE FilterBuilders(fb.subFilter[1]))

\* C26: whatever criteria of a filter ask for the same join alias, in one
\* node or across its sub-filter, every filterBuilder and the compiled query
\* hold each alias asked for exactly once and no other, and Query returns
\* each selected image once.
C26_JoinOncePerAlias ==
    LET m == makeQuery(imageFilter, findFilter)
    IN  (imageFilter # <<>> /\ m.err = "nil") =>
            /\ \A as \in RequestedAliases(imageFilter[1]) : TimesJoined(m.query[1].joins, as) = 1
            /\ \A k \in DOMAIN m.query[1].joins :
                  m.query[1].joins[k].as \in RequestedAliases(imageFilter[1])
            /\ \A fb \in FilterBuilders(makeFilter(imageFilter[1])) :
                  \A k \in DOMAIN fb.joins : TimesJoined(fb.joins, fb.joins[k].as) = 1
            /\ QueryOK =>
                  /\ Cardinality(Range(queryRet[1].images)) = Len(queryRet[1].images)
                  /\ Range(queryRet[1].images) = SelectedIDs(m.query[1])

\* C26 witness: a node with a performers and a performer-tags criterion,
\* whose sub-filter has them too, compiled to a query with the two joins;
\* an image with two performers matched on several joined rows and was
\* returned once.
C26_Witness ==
    /\ QueryOK
    /\ imageFilter # <<>>
    /\ imageFilter[1].Performers # <<>>
    /\ imageFilter[1].PerformerTags # <<>>
    /\ imageFilter[1].And # <<>>
    /\ imageFilter[1].And[1].Performers # <<>>
    /\ imageFilter[1].And[1].PerformerTags # <<>>
    /\ Len(makeQuery(imageFilter, findFilter).query[1].joins) = 2
    /\ \E i \in ImageIDs :
          /\ queryRet[1].images = <<i>>
          /\ Cardinality({r \in JoinRows(i, makeQuery(imageFilter, findFilter).query[1].joins) :
                EvalAll(makeQuery(imageFilter, findFilter).query[1].whereClauses,
                        makeQuery(imageFilter, findFilter).query[1].args, r) = "true"}) > 1

\* The operand lists of the criteria of a filter tree that are bound to
\* placeholders of WHERE clauses, in the order of the clauses: per node the
\* tag count, the performers, the performer count and the performer tags,
\* then the sub-filter.
RECURSIVE ExpectedOperands(_)
ExpectedOperands(f) ==
    (IF f.TagCount # <<>> THEN <<<<f.TagCount[1].Value>>>> ELSE <<>>)
    \o (IF f.Performers # <<>> /\ f.Performers[1].Value # <<>>
        THEN <<f.Performers[1].Value>> ELSE <<>>)
    \o (IF f.PerformerCount # <<>> THEN <<<<f.PerformerCount[1].Value>>>> ELSE <<>>)
    \o (IF f.PerformerTags # <<>> /\ f.PerformerTags[1].Value # <<>>
        THEN <<f.PerformerTags[1].Value>> ELSE <<>>)
    \o (IF SubFilterOf(f) # <<>> THEN ExpectedOperands(SubFilterOf(f)[1]) ELSE <<>>)

\* The operand lists of the search term and of the filter, in clause order.
ExpectedBinding(imgFilter, fndFilter) ==
    (IF fndFilter # <<>> /\ fndFilter[1].Q # <<>> /\ fndFilter[1].Q[1] # ""
     THEN <<[k \in DOMAIN SearchColumns |-> fndFilter[1].Q[1]]>> ELSE <<>>)
    \o (IF imgFilter # <<>> THEN ExpectedOperands(imgFilter[1]) ELSE <<>>)

\* The terms of a list that have a placeholder.
WithPlaceholder(terms) == SelectSeq(terms, LAMBDA t : t.n > 0)

\* C27: in every compiled query the argument list has as many entries as the
\* WHERE and HAVING clauses have placeholders, and the arguments are, in
\* clause order, the operands of the clause each placeholder stands in: the
\* search term once per searched column, then the operands of the criteria
\* of each node, then those of its sub-filter.
C27_ArgsMatchPlaceholders ==
    LET m == makeQuery(imageFilter, findFilter)
    IN  m.err = "nil" =>
            LET q == m.query[1]
                leaves == WithPlaceholder(LeafTerms(q.whereClauses \o q.havingClauses))
                expected == ExpectedBinding(imageFilter, findFilter)
            IN  /\ Len(q.args) = PlaceholdersOf(q.whereClauses) + PlaceholdersOf(q.havingClauses)
                /\ Len(leaves) = Len(expected)
                /\ \A k \in DOMAIN leaves : leaves[k].n = Len(expected[k])
                /\ q.args = Flatten(expected)

\* C27 witness: Query ran a query with a search term, a performers and a
\* performer-tags IncludesAll criterion (with its HAVING clause) in the node
\* and a performer count in its Not sub-filter: eight arguments.
C27_Witness ==
    /\ QueryOK
    /\ imageFilter # <<>>
    /\ findFilter # <<>>
    /\ imageFilter[1].Performers # <<>>
    /\ imageFilter[1].PerformerTags # <<>>
    /\ imageFilter[1].PerformerTags[1].Modifier = "INCLUDES_ALL"
    /\ imageFilter[1].Not # <<>>
    /\ imageFilter[1].Not[1].PerformerCount # <<>>
    /\ makeQuery(imageFilter, findFilter).query[1].args = <<"a", "a", "a", 2, 1, 1, 2, 1>>

(***************************************************************************)
(* Relations of an image (specification SpecRelations).                    *)
(***************************************************************************)
\* The caller that replaces and the caller that only reads.
Writer == txns[1]
Reader == txns[2]
\* The table of the relation the writer replaces, the set of ids it passes,
\* and the committed tables when its call began.
WriterTable == ReplaceRepository(Writer.call.op).tableName
WriterSet == {Writer.call.ids[k] : k \in 1..Len(Writer.call.ids)}
TablesBefore == IF Writer.before = <<>> THEN imageDB ELSE Writer.before[1]
\* Tables db differ from the tables before at most in the links of the
\* writer's image in the writer's relation.
OnlyWriterLinksChanged(db) ==
    WithLinks(db, WriterTable, Writer.call.id,
              Links(TablesBefore, WriterTable)[Writer.call.id]) = TablesBefore

\* C28: after Update<Relation>(id, ids) returned nil, Get<Relation>IDs(id)
\* returns exactly the set of ids that was passed, whatever the image was
\* linked to before: read by the same caller in its transaction, and in the
\* committed tables once the caller committed; no other link has changed.
C28_RelationRoundTrip ==
    /\ Writer.pc = "read" =>
          /\ Writer.ret = <<WriterSet>>
          /\ OnlyWriterLinksChanged(View(1))
    /\ (Writer.pc = "done" /\ Writer.err = "nil") =>
          /\ Links(imageDB, WriterTable)[Writer.call.id] = WriterSet
          /\ OnlyWriterLinksChanged(imageDB)
          /\ (Reader.pc = "get" /\ Reader.call.id = Writer.call.id) =>
                Links(View(2), GetIDsRepository(Reader.call.op).tableName)
                   [Reader.call.id] = WriterSet

\* C28 witness: an image linked to two entities had its links replaced by a
\* list that repeats one of them, and the caller read back that one id.
C28_Witness ==
    /\ Writer.pc = "read"
    /\ Cardinality(Links(TablesBefore, WriterTable)[Writer.call.id]) = 2
    /\ Len(Writer.call.ids) = 2
    /\ Cardinality(WriterSet) = 1
    /\ Writer.ret = <<WriterSet>>

\* C29: the replacement is atomic. What a concurrent reader gets for the
\* image is the links before the call or the ids passed, never a state in
\* between; the committed links are one of the two at every moment; and a
\* call that failed part-way leaves every committed link as it was.
C29_ReplaceAtomic ==
    LET old == Links(TablesBefore, WriterTable)[Writer.call.id]
    IN  /\ Links(imageDB, WriterTable)[Writer.call.id] \in {old, WriterSet}
        /\ (Reader.ret # <<>> /\ Reader.call.id = Writer.call.id) =>
              Reader.ret[1] \in {old, WriterSet}
        /\ Writer.err # "nil" => imageDB = TablesBefore

\* C29 witness: the replacement failed after it had deleted the two links of
\* the image and inserted one other; the reader read the image meanwhile and
\* got the two links, and after the rollback they are what is committed.
C29_Witness ==
    /\ Writer.pc = "done"
    /\ Writer.err # "nil"
    /\ Writer.k = 2
    /\ Len(Writer.call.ids) = 2
    /\ Cardinality(Links(imageDB, WriterTable)[Writer.call.id]) = 2
    /\ Reader.call.id = Writer.call.id
    /\ Reader.ret = <<Links(imageDB, WriterTable)[Writer.call.id]>>

(***************************************************************************)
(* The o-counter (specification SpecOCounter).                             *)
(***************************************************************************)
\* The o_counter of the image of caller c in tables db.
OCounterOf(c, db) == db.oCounter[txns[c].call.id]

\* C30: the o_counter of an image is never negative, in the committed rows
\* and in the rows of every open transaction, whatever calls of
\* IncrementOCounter, DecrementOCounter and ResetOCounter the callers make
\* and however they interleave, and no call returns a negative count; a
\* DecrementOCounter on a counter at 0 leaves it at 0 and returns 0.
C30_OCounterNeverNegative ==
    /\ \A i \in ImageIDs : imageDB.oCounter[i] >= 0
    /\ \A c \in Callers :
          /\ \A i \in ImageIDs : View(c).oCounter[i] >= 0
          /\ txns[c].ret # <<>> => txns[c].ret[1] >= 0
          /\ (/\ txns[c].call.op = "DecrementOCounter"
              /\ txns[c].pc \in {"find", "read"}
              /\ OCounterOf(c, txns[c].before[1]) = 0) =>
                /\ OCounterOf(c, View(c)) = 0
                /\ txns[c].pc = "read" => txns[c].ret = <<0>>

\* C30 witness: the counter was 1; one caller decremented it and committed,
\* then another decremented the counter at 0 and was returned 0.
C30_Witness ==
    /\ txns[2].call.op = "DecrementOCounter"
    /\ txns[2].pc = "done"
    /\ txns[2].err = "nil"
    /\ OCounterOf(2, txns[2].before[1]) = 1
    /\ txns[1].call.op = "DecrementOCounter"
    /\ txns[1].pc = "read"
    /\ OCounterOf(1, txns[1].before[1]) = 0
    /\ txns[1].ret = <<0>>

(***************************************************************************)
(* Find and FindMany (specification SpecFind).                             *)
(***************************************************************************)
\* The ids of a list that have no row, and whether the store fails the fetch
\* of an id of a list before the loop of FindMany meets an absent one.
AbsentIn(ids) == {k \in 1..Len(ids) : ~imageDB.present[ids[k]]}
FailsIn(ids) == {k \in 1..Len(ids) : qfault.kind = "fetch" /\ qfault.id = ids[k]}

\* C31: Find(id) of an absent row returns nil and no error; FindMany(ids)
\* with an absent id among those it reaches returns an error and no list, and
\* when every id has a row (and the store works) it returns one image per
\* requested id, in the order of the request.
C31_FindAndFindMany ==
    LET txn == txns[1]
        r == txn.ret[1]
        ids == txn.call.ids
    IN  /\ (txn.call.op = "Find" /\ txn.ret # <<>>) =>
              /\ (~imageDB.present[txn.call.id] /\ FailsIn(<<txn.call.id>>) = {}) =>
                    r = [image |-> <<>>, err |-> "nil"]
              /\ (imageDB.present[txn.call.id] /\ FailsIn(<<txn.call.id>>) = {}) =>
                    /\ r.err = "nil"
                    /\ r.image # <<>>
                    /\ r.image[1].ID = txn.call.id
        /\ (txn.call.op = "FindMany" /\ txn.ret # <<>>) =>
              /\ (AbsentIn(ids) # {} \/ FailsIn(ids) # {}) =>
                    /\ r.err # "nil"
                    /\ r.images = <<>>
              /\ (AbsentIn(ids) # {} /\ FailsIn(ids) = {}) =>
                    \E k \in AbsentIn(ids) : r.err = NotFoundError(ids[k])
              /\ (AbsentIn(ids) = {} /\ FailsIn(ids) = {}) =>
                    /\ r.err = "nil"
                    /\ Len(r.images) = Len(ids)
                    /\ \A k \in 1..Len(ids) :
                          r.images[k] = Row(imageDB, ids[k])

\* C31 witness: FindMany of a present id followed by an absent one returned
\* the error and no list.
C31_Witness ==
    /\ txns[1].call.op = "FindMany"
    /\ Len(txns[1].call.ids) = 2
    /\ AbsentIn(txns[1].call.ids) = {2}
    /\ qfault = NoFault
    /\ txns[1].ret # <<>>
    /\ txns[1].ret[1].err # "nil"
    /\ txns[1].ret[1].images = <<>>

(***************************************************************************)
(* ImportStudios, disturbed (specification SpecStudioFaults).              *)
(***************************************************************************)
\* The studio the first pass is at, and the studios queued under its name.
FirstPassStudio == mappings["studios"][idx]
QueuedChildren == Range(PendingOf(FALSE, pendingParent, FirstPassStudio))
\* The first pass takes its step on a studio that has children queued.
AtParentWithChildren ==
    /\ pc = "studios"
    /\ idx <= Len(mappings["studios"])
    /\ QueuedChildren # {}
\* The step logged the failure of a child of the studio.
ChildFailureLogged(name) ==
    LogEntry("error", "studios", name, "child") \in errlog' \ errlog

\* The step of the first pass on a parent with queued children.
C32_ParentStep ==
    AtParentWithChildren =>
        LET name == FirstPassStudio
        IN  /\ studioRows' # studioRows =>
                  /\ lastTxn'.committed
                  /\ ~ChildFailureLogged(name)
                  /\ \A k \in QueuedChildren \cup {name} : studioRows'[k] # Absent
            /\ ChildFailureLogged(name) =>
                  /\ ~lastTxn'.committed
                  /\ studioRows' = studioRows
                  /\ pendingParent' = pendingParent

\* An entry is kept in the map to the end of the first pass unless the step
\* on its studio returned no error of a child.
C32_EntryKept ==
    pc = "studios" =>
        \A k \in DOMAIN pendingParent :
            \/ k \in DOMAIN pendingParent'
            \/ /\ pc' = "studios"
               /\ k = FirstPassStudio
               /\ ~ChildFailureLogged(k)

\* The leftover phase ranges over every entry of the map and attempts every
\* studio of its list, in a transaction of its own.
C32_LeftoverAttemptsAll ==
    /\ (pc = "studios" /\ pc' = "studios_leftover") =>
          rangeTodo' = DOMAIN pendingParent /\ rangeCur' = <<>>
    /\ (pc = "studios_leftover" /\ pc' = "studios_leftover") =>
          /\ pendingParent' = pendingParent
          /\ IF rangeCur # <<>>
             THEN /\ lastTxn'.name = Head(rangeCur)
                  /\ rangeCur' = Tail(rangeCur)
                  /\ rangeTodo' = rangeTodo
             ELSE \E k \in rangeTodo :
                     /\ lastTxn'.name = Head(pendingParent[k])
                     /\ rangeCur' = Tail(pendingParent[k])
                     /\ rangeTodo' = rangeTodo \ {k}
    /\ (pc = "studios_leftover" /\ pc' # "studios_leftover") =>
          rangeCur = <<>> /\ rangeTodo = {}

\* C32: in the first pass a parent with children queued under its name is
\* committed only together with every one of them; when a child fails, the
\* parent and every child created in that transaction are rolled back, the
\* entry of the parent stays in the map, and the leftover phase attempts
\* every studio of every entry left in the map.
C32_ParentChildrenAtomic ==
    [][C32_ParentStep /\ C32_EntryKept /\ C32_LeftoverAttemptsAll]_vars

\* C32 witness: the leftover phase is through, after a first pass in which a
\* child failed in the transaction of its parent: the parent is not in the
\* store and its entry is in the map.
C32_Witness ==
    /\ pc = "studios_leftover"
    /\ rangeTodo = {}
    /\ rangeCur = <<>>
    /\ \E k \in DOMAIN pendingParent :
          /\ LogEntry("error", "studios", k, "child") \in errlog
          /\ studioRows[k] = Absent

\* ImportStudios has returned.
StudiosOver == pc \notin {"start", "tags", "performers", "studios", "studios_leftover"}

\* A failure of the studio is in the log.
FailureLogged(name) ==
    \E e \in errlog : e.level = "error" /\ e.type = "studios" /\ e.name = name

\* C33: when ImportStudios has returned, every studio of the manifest is in
\* the store or has a failure of its own in the log.
C33_NoStudioLost ==
    StudiosOver =>
        \A name \in Range(mappings["studios"]) :
            studioRows[name] # Absent \/ FailureLogged(name)

\* The rows after the transaction of one leftover studio on the rows st.
OrphanRows(name, st) ==
    LET r == ImportStudio(name, TRUE, EmptyMap, st)
    IN  TxnRows(st, r.st, TxnErr(r, Fails("studios", name, "commit")))

\* The rows after the inner loop of the leftover phase over one list.
RECURSIVE ListRows(_, _)
ListRows(list, st) ==
    IF list = <<>> THEN st ELSE ListRows(Tail(list), OrphanRows(Head(list), st))

\* The rows after the leftover phase when the range visits the keys of the
\* map in the order `keys`.
RECURSIVE LeftoverRows(_, _)
LeftoverRows(keys, st) ==
    IF keys = <<>> THEN st
    ELSE LeftoverRows(Tail(keys), ListRows(pendingParent[Head(keys)], st))

\* The orders in which a range can visit the keys of the map.
RangeOrders ==
    LET keys == DOMAIN pendingParent
    IN  {o \in [1..Cardinality(keys) -> keys] :
            \A i, j \in DOMAIN o : i # j => o[i] # o[j]}

\* C34: when the first pass is over, the studios stored at the end of the
\* leftover phase, and their parents, are the same whatever the order in
\* which the range visits the keys of the map.
C34_OrderIndependent ==
    (pc = "studios" /\ idx > Len(mappings["studios"])) =>
        \A o1 \in RangeOrders, o2 \in RangeOrders :
            LeftoverRows(o1, studioRows) = LeftoverRows(o2, studioRows)

(***************************************************************************)
(* The two phases of Query (specification SpecQueryPhases).                *)
(***************************************************************************)
\* C35: a Query that returns no error returns one image per id selected in
\* the id phase, in that order, and none of them is nil, whether or not a
\* concurrent writer deleted a selected row and committed in between.
C35_QueryReturnsFound ==
    LET txn == txns[1]
    IN  (txn.pc = "done" /\ txn.ret # <<>> /\ txn.ret[1].err = "nil") =>
            /\ Len(txn.ret[1].images) = Len(txn.call.ids)
            /\ \A k \in 1..Len(txn.call.ids) :
                  /\ txn.ret[1].images[k] # <<>>
                  /\ txn.ret[1].images[k][1].ID = txn.call.ids[k]

\* C35 witness: the loop of Query is about to fetch a selected id whose row
\* the writer has deleted, and committed, since the id phase; the transaction
\* of the Query still reads the row.
C35_Witness ==
    /\ txns[1].pc = "fetch"
    /\ txns[1].call.ids[txns[1].k] = txns[2].call.id
    /\ txns[2].pc = "done"
    /\ txns[2].err = "nil"
    /\ ~imageDB.present[txns[2].call.id]
    /\ ReadView(1).present[txns[2].call.id]

(***************************************************************************)
(* The o-counter calls on any id (specification SpecOCounterRows).         *)
(***************************************************************************)
\* The count the call of caller c returns when the row of its id holds `old`.
CounterAfter(op, old) ==
    CASE op = "IncrementOCounter" -> old + 1
      [] op = "DecrementOCounter" -> IF old - 1 > 0 THEN old - 1 ELSE 0
      [] OTHER -> 0

\* The call of caller c has run its UPDATE on tables where its id had no row.
CalledOnMissingRow(c) ==
    /\ txns[c].call.op \in CounterOps
    /\ txns[c].before # <<>>
    /\ ~txns[c].before[1].present[txns[c].call.id]

\* No call on an id without a row ends in a fault.
C36_NoFaultOnMissingRow ==
    \A c \in Callers : CalledOnMissingRow(c) => txns[c].err # NilDereference

\* The UPDATE of a call changes no counter but that of its id.
C36_OtherCountersUnchanged ==
    \A c \in Callers :
        (txns[c].call.op \in CounterOps /\ txns[c].pc \in {"find", "read"}) =>
            \A j \in ImageIDs \ {txns[c].call.id} :
                View(c).oCounter[j] = txns[c].before[1].oCounter[j]

\* A call on a row that exists returns the count stored after its UPDATE.
C36_ReturnsStored ==
    \A c \in Callers :
        (txns[c].call.op \in CounterOps /\ txns[c].pc = "read") =>
            /\ txns[c].before[1].present[txns[c].call.id]
            /\ txns[c].ret = <<CounterAfter(txns[c].call.op,
                                             OCounterOf(c, txns[c].before[1]))>>
            /\ txns[c].ret = <<OCounterOf(c, View(c))>>

\* C36: IncrementOCounter, DecrementOCounter and ResetOCounter on an id that
\* has no row return normally, without a fault, and change no counter of
\* another image; on a row that exists they return the count stored after
\* the operation: old + 1, max(old - 1, 0) and 0.
C36_CounterCalls ==
    /\ C36_NoFaultOnMissingRow
    /\ C36_OtherCountersUnchanged
    /\ C36_ReturnsStored

(***************************************************************************)
(* The SQL text of a query and the text of the caller (SpecMissing).       *)
(***************************************************************************)
\* The text of the statement makeQuery builds: the query without the
\* arguments bound to its placeholders.
SqlText(m) == IF m.err # "nil" THEN <<>> ELSE <<[m.query[1] EXCEPT !.args = <<>>]>>

\* The names the switch of imageIsMissingCriterionHandler knows.
KnownMissing == {"studio", "performers", "galleries", "tags"}

\* Strings a caller may give as is_missing that are none of the known names.
OtherMissing == {"title", "checksum", "title IS NULL) OR (1 = 1"}

\* The imageFilter of the state with is_missing replaced by `name`.
WithIsMissing(name) ==
    <<[(IF imageFilter = <<>> THEN EmptyFilter ELSE imageFilter[1])
          EXCEPT !.IsMissing = <<name>>]>>

\* Query or QueryCount has compiled a filter whose is_missing is none of the
\* known names.
IsMissingOther ==
    /\ queryRet # <<>> \/ countRet # <<>>
    /\ imageFilter # <<>>
    /\ imageFilter[1].IsMissing # <<>>
    /\ imageFilter[1].IsMissing[1] \notin KnownMissing \cup {""}

\* A filter whose is_missing is none of the known names compiles to the text
\* every other such string compiles to.
C37_IsMissingKeepsText ==
    IsMissingOther =>
        \A name \in OtherMissing :
            SqlText(makeQuery(WithIsMissing(name), findFilter)) =
                SqlText(makeQuery(imageFilter, findFilter))

\* Two search terms compile to the same text and differ in the arguments.
C37_SearchTermBound ==
    \A q1, q2 \in Texts \ {""} :
        LET m1 == makeQuery(imageFilter, <<[EmptyFindFilter EXCEPT !.Q = <<q1>>]>>)
            m2 == makeQuery(imageFilter, <<[EmptyFindFilter EXCEPT !.Q = <<q2>>]>>)
        IN  /\ SqlText(m1) = SqlText(m2)
            /\ q1 # q2 => m1.query[1].args # m2.query[1].args

\* C37: text given by the caller never becomes SQL text: two filters that
\* differ only in the values of the caller compile to the same SQL text and
\* differ only in the bound arguments; an is_missing string that is none of
\* the known names does not change the structure of the query.
C37_CallerTextNeverSQL ==
    /\ C37_SearchTermBound
    /\ C37_IsMissingKeepsText

(***************************************************************************)
(* The policies of the task (specification SpecPolicies).                  *)
(***************************************************************************)
PoliciesValid ==
    /\ DuplicateBehaviour \in DuplicateEnum
    /\ MissingRefBehaviour \in MissingRefEnum

\* Start, past unzipFile, leaves a valid policy as it is and makes an invalid
\* one Fail; no other step changes a policy of the task.
PolicyStep ==
    IF pc = "start" /\ startFault # "unzip"
    THEN /\ DuplicateBehaviour' =
               IF DuplicateBehaviour \in DuplicateEnum THEN DuplicateBehaviour ELSE "FAIL"
         /\ MissingRefBehaviour' =
               IF MissingRefBehaviour \in MissingRefEnum THEN MissingRefBehaviour ELSE "FAIL"
    ELSE UNCHANGED <<DuplicateBehaviour, MissingRefBehaviour>>

\* The policies the importers are given: those of the task, but for the studio
\* importer of the first pass, whose missing-reference policy is Fail.
PoliciesHandedOn ==
    /\ DuplicatePolicy = DuplicateBehaviour
    /\ SceneMissingRef = MissingRefBehaviour
    /\ MarkerMissingRef = MissingRefBehaviour
    /\ ImporterMissingRef(TRUE) = MissingRefBehaviour
    /\ ImporterMissingRef(FALSE) = "FAIL"

\* C38: Start replaces a DuplicateBehaviour or MissingRefBehaviour that is no
\* valid value by Fail before any entity is imported, and never changes a
\* valid one; every importer gets the policies of the task, but the studio
\* importer of the first pass, which gets Fail for missing references.
C38_PolicyDefaults ==
    [][/\ PolicyStep
       /\ attempted' # {} => PoliciesValid'
       /\ PoliciesHandedOn']_vars

\* An import runs under the two policies Start defaults to.
C38_Witness ==
    /\ attempted # {}
    /\ pc \in {StartSteps[k] : k \in DOMAIN StartSteps}
    /\ DuplicateBehaviour = "FAIL"
    /\ MissingRefBehaviour = "FAIL"

(***************************************************************************)
(* progressReader: the reader DownloadSingle copies the response body      *)
(* through. The body holds `total` bytes (resp.ContentLength); each Read   *)
(* of the body returns a count of bytes and an error: nil, io.EOF with or  *)
(* after the last bytes, or the error of a broken connection.              *)
(***************************************************************************)
MaxTotal == 6
MaxChunk == 3

\* int64(float64(bytesRead) / float64(total) * 100): for the totals of the
\* model (up to 40 bytes) the float64 product truncates to the exact quotient.
Progress(bytesRead, total) == (bytesRead * 100) \div total

\* What r.Reader.Read(p) can return when `returned` bytes of `total` are out.
ReaderReturns(total, returned) ==
    {[n |-> n, err |-> "nil"] : n \in 0..MaxChunk}
    \cup {[n |-> n, err |-> "EOF"] : n \in {k \in 0..MaxChunk : returned + k = total}}
    \cup {[n |-> n, err |-> "error"] : n \in 0..MaxChunk}

\* progressReader.Read(p) with the underlying Read returning (n, err); io.Copy
\* calls Read until it returns an error.
Read ==
    /\ download.err = "nil"
    /\ \E ret \in ReaderReturns(download.total, download.returned) :
          /\ download.returned + ret.n <= download.total
          /\ LET bytesRead == IF ret.err = "nil" THEN download.bytesRead + ret.n
                              ELSE download.bytesRead
                 progress == Progress(bytesRead, download.total)
                 logs == ret.err = "nil" /\ download.total > 0
                         /\ progress \div 5 > download.lastProgress
             IN  download' = [download EXCEPT
                     !.returned = @ + ret.n,
                     !.bytesRead = bytesRead,
                     !.lastProgress = IF logs THEN progress \div 5 ELSE @,
                     !.logged = IF logs THEN Append(@, progress) ELSE @,
                     !.err = ret.err]
    /\ UNCHANGED <<importVars, imageDB, imageFilter, findFilter, qfault, queryRet, countRet,
                   executed, txns>>

InitDownload ==
    /\ ImportIdle
    /\ imageDB = EmptyDB
    /\ imageFilter = <<>>
    /\ findFilter = <<>>
    /\ qfault = NoFault
    /\ queryRet = <<>>
    /\ countRet = <<>>
    /\ executed = {}
    /\ txns = NoCalls
    /\ \E total \in 1..MaxTotal : download = [NoDownload EXCEPT !.total = total]

NextDownload == Read

SpecDownload == InitDownload /\ [][NextDownload]_vars

\* lastProgress never decreases.
C39_LastProgressGrows == download'.lastProgress >= download.lastProgress

\* A message is logged only in a Read after which the 5%-bucket of the
\* percentage read is above lastProgress, which becomes that bucket.
C39_LoggedOnNewBucket ==
    download'.logged # download.logged =>
        /\ Progress(download'.bytesRead, download.total) \div 5 > download.lastProgress
        /\ download'.lastProgress = Progress(download'.bytesRead, download.total) \div 5
        /\ download'.logged =
               Append(download.logged, Progress(download'.bytesRead, download.total))

\* At most one message per bucket: the buckets of the messages grow.
C39_OneMessagePerBucket ==
    \A i, j \in DOMAIN download.logged :
        i < j => download.logged[i] \div 5 < download.logged[j] \div 5

\* bytesRead is the sum of the byte counts the underlying reader returned.
C39_BytesReadIsSum == download.bytesRead = download.returned

C39_Monotonic == [][C39_LastProgressGrows /\ C39_LoggedOnNewBucket]_vars

\* C39: over any sequence of Read calls on a progressReader with total > 0,
\* lastProgress never decreases, a message is logged only when the 5%-bucket
\* of the percentage read exceeds lastProgress (at most one message per
\* bucket), and bytesRead equals the sum of the byte counts returned by the
\* underlying reader.
C39_ProgressReader ==
    [][/\ C39_LastProgressGrows
       /\ C39_LoggedOnNewBucket
       /\ C39_OneMessagePerBucket'
       /\ C39_BytesReadIsSum']_vars
====
